---- MODULE Spec2Model ----
(***************************************************************************)
(* AG Bridge: the CDP connection manager (CdpBridge), the multi-context    *)
(* message injector, the action queue processor, the delegation API and    *)
(* the MCP server's bridgeRequest.                                       *)
(*                                                                         *)
(* One event loop: every action below is one macrotask (a socket event, a  *)
(* timer, an HTTP request) together with the promise continuations it     *)
(* wakes, which run to their next await before any other macrotask.       *)
(***************************************************************************)
EXTENDS Integers, Sequences, FiniteSets, TLC

\* ------------------------------------------------------------------ bounds
MaxCtx == 2      \* execution context ids are 1..MaxCtx
MaxReq == 5      \* request ids handed out by send() are 1..MaxReq
MaxDirect == 1   \* POST /messages/send requests in flight together
MaxTicks == 1    \* queue ticks whose delivery is in flight together
MaxSock == 2     \* socket objects alive at a time
MaxItems == 2    \* items ever pushed onto the action queue
MaxDeleg == 1    \* delegations ever created
MaxTime == 3     \* the clock runs from 0 to MaxTime
MaxOverlap == 2  \* queue ticks in flight together where ticks may overlap

\* ------------------------------------------------------- program constants
attempts == 3            \* injectMessage: const attempts = 3
FirstRequestId == 1      \* constructor: this.requestId = 1

VARIABLES
    \* CdpBridge fields
    \* (reconnectTimer: the number of reconnect callbacks pending, 0 for null)
    isConnected, ws, contexts, reconnectTimer, requestId, pendingRequests,
    \* environment of the bridge
    sockets,      \* socket id -> "none" | "connecting" | "open"
    finding,      \* connect() calls that are awaiting findTarget()
    started,      \* calls of start() made so far
    ideBusy,      \* the cancel button is visible in the IDE
    \* injectMessage calls in flight
    calls,
    \* server STATE
    actionQueue, agentBusy,
    \* observation
    settled,      \* request id -> how often its promise was resolved or rejected
    pub,          \* the last event handed to broadcast(), with a flip bit
    dlog,         \* the deliveries and drops of the queue processor, in order
    nItems,       \* items pushed so far
    lastOp,       \* the handler that ran last
    \* the delegation supervisor
    delegations,  \* STATE.delegations
    creating,     \* delegation id -> the await its POST /api/delegation is at
    nDeleg,       \* delegations created so far
    now,          \* Date.now()
    dop,          \* the delegation handler that ran last, with its answer
    \* the busy poller of the bridge
    lastBusyState, \* what the poller published last; "undefined" at first
    \* the MCP server (another process)
    mcp           \* the bridgeRequest call in flight

dvars == << delegations, creating, nDeleg, now, dop >>

vars == << isConnected, ws, contexts, reconnectTimer, requestId, pendingRequests,
           sockets, finding, started, ideBusy, calls, actionQueue, agentBusy,
           settled, pub, dlog, nItems, lastOp, dvars, lastBusyState, mcp >>

Ctx == 1..MaxCtx
ReqIds == 1..MaxReq
CallIds == 1..(MaxDirect + MaxOverlap)
DirectIds == 1..MaxDirect
TickIds == (MaxDirect + 1)..(MaxDirect + MaxTicks)
OverlapIds == (MaxDirect + 1)..(MaxDirect + MaxOverlap)
SockIds == 1..MaxSock

\* ----------------------------------------------------------------- helpers
Reverse(s) == [k \in 1..Len(s) |-> s[Len(s) + 1 - k]]

SeqHas(s, x) == \E k \in 1..Len(s) : s[k] = x

SeqRemove(s, x) == SelectSeq(s, LAMBDA y : y # x)

MapSet(f, k, v) == [x \in DOMAIN f \cup {k} |-> IF x = k THEN v ELSE f[x]]

MapDel(f, k) == [x \in DOMAIN f \ {k} |-> f[x]]

EmptyMap == [x \in {} |-> 0]

Min(S) == CHOOSE x \in S : \A y \in S : x <= y

NoCall == [who |-> "none", pc |-> "free", i |-> 0, phase |-> 1, rest |-> << >>,
           cur |-> 0, req |-> 0, ret |-> "", item |-> 0, sawBusy |-> FALSE,
           alone |-> TRUE, offline |-> FALSE]

NoPub == [ev |-> "none", val |-> 0, flip |-> FALSE]

\* broadcast(event, payload)
Broadcast(p, ev, val) == [ev |-> ev, val |-> val, flip |-> ~p.flip]

\* A call that returned is seen as "done", with its return value, in the state
\* its last step leaves; its caller has answered by the next step.
Collected ==
    [c \in CallIds |-> IF calls[c].pc = "done" THEN NoCall
                       ELSE [calls[c] EXCEPT !.offline = FALSE]]

\* The part of the state a promise continuation can change.
Machine == [requestId |-> requestId, pendingRequests |-> pendingRequests,
            calls |-> Collected, actionQueue |-> actionQueue, agentBusy |-> agentBusy,
            pub |-> pub, dlog |-> dlog]

\* ------------------------------------------------ the action queue processor
\* a pop() in place of the shift(): the tail item is dropped
DropLast(q) == IF q = << >> THEN q ELSE SubSeq(q, 1, Len(q) - 1)

\* Array.prototype.shift(): drops the head, a no-op on an empty array
Shift(q) == IF q = << >> THEN q ELSE Tail(q)

\* a busy branch that gives the item up
BusyDrops(m) ==
    [m EXCEPT !.actionQueue = Shift(m.actionQueue), !.agentBusy = TRUE,
              !.pub = Broadcast(m.pub, "agent_state", 1)]

\* `else if (injection.error === 'busy')`: the flag and the broadcast, the
\* queue as it is
Busy(m) ==
    [m EXCEPT !.agentBusy = TRUE, !.pub = Broadcast(m.pub, "agent_state", 1)]

\* a drop branch that keeps the item for the next tick
Retried(m, entry) == m

\* the last `else`: shift() and saveState(), no broadcast
Drop(m, entry) ==
    [m EXCEPT !.actionQueue = Shift(m.actionQueue), !.dlog = Append(m.dlog, entry)]

\* The tick's code after `await cdpBridge.injectMessage(action.text)`.
TickEnd(m, c, ret) ==
    LET q == Shift(m.actionQueue)
        entry == [kind |-> IF ret = "ok" THEN "success" ELSE "drop",
                  item |-> m.calls[c].item,
                  popped |-> IF m.actionQueue = << >> THEN 0
                             ELSE Head(m.actionQueue).id,
                  count |-> Len(q),
                  enq |-> nItems,
                  alone |-> m.calls[c].alone]
    IN  IF ret = "thrown" THEN m
        ELSE IF ret = "ok"
        THEN [m EXCEPT !.actionQueue = q,
                       !.pub = Broadcast(m.pub, "queue_update", Len(q)),
                       !.dlog = Append(m.dlog, entry)]
        ELSE IF ret = "busy" THEN Busy(m)
        ELSE Drop(m, entry)

\* --------------------------------------------------------- injectMessage
\* injectMessage returns `ret`; its caller goes on in the same macrotask.
Return(m, c, ret) ==
    LET done == [m EXCEPT !.calls[c] = [NoCall EXCEPT !.who = m.calls[c].who,
                                                      !.pc = "done",
                                                      !.ret = ret,
                                                      !.item = m.calls[c].item,
                                                      !.sawBusy = m.calls[c].sawBusy,
                                                      !.alone = m.calls[c].alone,
                                                      !.offline = m.calls[c].offline]]
    IN  IF m.calls[c].who = "tick" THEN TickEnd(done, c, ret) ELSE done

\* a send() that registers under this.requestId without the increment
SendSameId(m, c, kind, ctx) ==
    [m EXCEPT !.pendingRequests = MapSet(m.pendingRequests, m.requestId,
                                         [owner |-> c, kind |-> kind, ctx |-> ctx]),
              !.calls[c].pc = kind,
              !.calls[c].cur = ctx,
              !.calls[c].req = m.requestId]

\* send() on a live session: a new id, a pending entry, a frame written.
SendReq(m, c, kind, ctx) ==
    [m EXCEPT !.requestId = m.requestId + 1,
              !.pendingRequests = MapSet(m.pendingRequests, m.requestId,
                                         [owner |-> c, kind |-> kind, ctx |-> ctx]),
              !.calls[c].pc = kind,
              !.calls[c].cur = ctx,
              !.calls[c].req = m.requestId]

\* a send() that registers and writes without looking at the session
SendAlways(m, c, kind, ctx, live) == SendReq(m, c, kind, ctx)

\* send(method, params): `if (!this.isConnected || !this.ws) return reject(...)`
\* before anything else; `live` is isConnected && ws
Send(m, c, kind, ctx, live) ==
    IF ~live THEN [m EXCEPT !.calls[c].pc = "rejected"]
    ELSE SendReq(m, c, kind, ctx)

\* `await this.send(...)` in call `c`; offline notes that send() was called
\* with no live session
AwaitSend(m, c, kind, ctx, live) ==
    Send([m EXCEPT !.calls[c].offline = m.calls[c].offline \/ ~live],
         c, kind, ctx, live)

\* a rejection that escapes the loop of tryInjectAnyContext
Uncaught == "throw"

\* `try { ... } catch (err) { }` around the body of the loop: the rejection is
\* swallowed and the loop goes on
Caught == "continue"

\* tryInjectAnyContext from the context list `ids` on: the probe of the first
\* context is sent and the call suspends; a send() that is rejected at once is
\* caught and the loop takes the next context. The result is the pair
\* <<machine, outcome>>, outcome "wait" when the call is suspended on a request.
RECURSIVE SweepFrom(_, _, _, _)
SweepFrom(m, c, ids, live) ==
    IF ids = << >> THEN << m, "not_found" >>
    ELSE LET m1 == AwaitSend(m, c, "probe", Head(ids), live)
         IN  IF m1.calls[c].pc # "rejected"
             THEN << [m1 EXCEPT !.calls[c].rest = Tail(ids)], "wait" >>
             ELSE IF Caught = "continue" THEN SweepFrom(m1, c, Tail(ids), live)
             ELSE << m1, "thrown" >>

\* a sweep without the reverse(): oldest context first
SweepOldestFirst(m, c, ctxs, live) ==
    IF ctxs = << >> THEN << m, "no_contexts" >>
    ELSE SweepFrom(m, c, ctxs, live)

\* tryInjectAnyContext(text)
TryInjectAnyContext(m, c, ctxs, live) ==
    IF ctxs = << >> THEN << m, "no_contexts" >>
    ELSE SweepFrom(m, c, Reverse(ctxs), live)

\* setTimeout(r, 1000) between the two sweeps of one iteration
Sleep(m, c) ==
    [m EXCEPT !.calls[c].pc = "sleep", !.calls[c].cur = 0, !.calls[c].req = 0,
              !.calls[c].rest = << >>]

\* One iteration of the for loop from its top: the first sweep.
FirstSweep(m, c, ctxs, live) ==
    LET r == TryInjectAnyContext([m EXCEPT !.calls[c].phase = 1], c, ctxs, live)
    IN  IF r[2] = "wait" THEN r[1]
        ELSE IF r[2] = "thrown" THEN Return(r[1], c, "thrown")
        ELSE Sleep(r[1], c)

\* an injectMessage that waits for the retry whatever the sweep returned
SleepAfterSweep(m, c, res, ctxs, live) == Sleep(m, c)

\* injectMessage after a sweep ended with `res` ("ok", "busy", "not_found",
\* "no_contexts").
AfterSweep(m, c, res, ctxs, live) ==
    IF res = "thrown" THEN Return(m, c, "thrown")
    ELSE IF res = "ok" THEN Return(m, c, "ok")
    ELSE IF m.calls[c].phase = 1
    THEN IF res = "busy" THEN Return(m, c, "busy") ELSE Sleep(m, c)
    ELSE IF m.calls[c].i + 1 < attempts
         THEN FirstSweep([m EXCEPT !.calls[c].i = m.calls[c].i + 1], c, ctxs, live)
         ELSE Return(m, c, "editor_not_found_in_any_context")

\* The loop of tryInjectAnyContext goes on to the next context.
NextContext(m, c, ctxs, live) ==
    LET r == SweepFrom(m, c, m.calls[c].rest, live)
    IN  IF r[2] = "wait" THEN r[1] ELSE AfterSweep(r[1], c, r[2], ctxs, live)

\* An awaited send() of call `c` was rejected inside the try block.
OnReject(m, c, ctxs, live) ==
    IF Caught = "continue" THEN NextContext(m, c, ctxs, live)
    ELSE AfterSweep(m, c, "thrown", ctxs, live)

\* The call `c` wakes up: the request it awaited settled with `val`
\* ("error" for a rejection).
Wake(m, c, val, ctxs, live) ==
    IF m.calls[c].pc = "probe"
    THEN IF val = "error" THEN OnReject(m, c, ctxs, live)
         ELSE IF val = "true"
         THEN LET m1 == AwaitSend(m, c, "action", m.calls[c].cur, live)
              IN  IF m1.calls[c].pc = "rejected" THEN OnReject(m1, c, ctxs, live)
                  ELSE m1
         ELSE NextContext(m, c, ctxs, live)
    ELSE IF m.calls[c].pc = "action"
    THEN IF val = "error" THEN OnReject(m, c, ctxs, live)
         ELSE IF val = "ok" THEN AfterSweep(m, c, "ok", ctxs, live)
         ELSE IF val = "busy"
         THEN AfterSweep([m EXCEPT !.calls[c].sawBusy = TRUE], c, "busy", ctxs, live)
         ELSE NextContext(m, c, ctxs, live)
    ELSE m

\* cleanup() rejects the pending requests in the Map's (insertion) order; the
\* awaiting calls wake with the rejection, the session being gone.
RECURSIVE RejectAll(_, _, _)
RejectAll(m, ids, pend) ==
    IF ids = {} THEN m
    ELSE LET id == Min(ids)
             o == pend[id].owner
         IN  RejectAll(IF o = 0 THEN m ELSE Wake(m, o, "error", << >>, FALSE),
                       ids \ {id}, pend)

\* The machine is written back to the variables.
Commit(m) ==
    \E w \in {m} :
        /\ w.requestId <= MaxReq + 1
        /\ requestId' = w.requestId
        /\ pendingRequests' = w.pendingRequests
        /\ calls' = w.calls
        /\ actionQueue' = w.actionQueue
        /\ agentBusy' = w.agentBusy
        /\ pub' = w.pub
        /\ dlog' = w.dlog

NoOp == [op |-> "", a |-> 0, ids |-> {}, err |-> "", val |-> ""]

\* lastOp observes the handlers the properties below speak about: the handler,
\* its argument, the request ids it settled and the error it rejected them
\* with. The other handlers leave NoOp.
Op(name, a) == lastOp' = [NoOp EXCEPT !.op = name, !.a = a]

Quiet == lastOp' = NoOp

OpSettle(name, a, ids, err) ==
    lastOp' = [NoOp EXCEPT !.op = name, !.a = a, !.ids = ids, !.err = err]

\* a response frame with id `a` settled the entry `hit` with the value `val`
OpAnswer(a, hit, val) ==
    lastOp' = [op |-> "response", a |-> a, ids |-> {hit},
               err |-> IF val = "error" THEN "remote" ELSE "", val |-> val]

\* resolve()/reject() was called once more for each request in `ids`
Settle(cnt, ids) == [r \in ReqIds |-> IF r \in ids THEN cnt[r] + 1 ELSE cnt[r]]

\* ------------------------------------------------- the delegation supervisor
\* A string is the sequence of its characters.
UpperCase == << "A", "B", "C", "D", "E", "F", "G", "H", "I", "J", "K", "L", "M",
               "N", "O", "P", "Q", "R", "S", "T", "U", "V", "W", "X", "Y", "Z" >>

LowerCase == << "a", "b", "c", "d", "e", "f", "g", "h", "i", "j", "k", "l", "m",
               "n", "o", "p", "q", "r", "s", "t", "u", "v", "w", "x", "y", "z" >>

\* String.prototype.toLowerCase()
toLowerCase(s) ==
    [i \in 1..Len(s) |->
        IF \E k \in 1..Len(UpperCase) : UpperCase[k] = s[i]
        THEN LowerCase[CHOOSE k \in 1..Len(UpperCase) : UpperCase[k] = s[i]]
        ELSE s[i]]

\* String.prototype.includes(t)
includes(s, t) ==
    \E i \in 0..(Len(s) - Len(t)) : SubSeq(s, i + 1, i + Len(t)) = t

\* null and undefined in a field that holds a number or a time
null == -1

AVAILABLE_MODELS == <<
    [index |-> 0,
     name |-> << "G","e","m","i","n","i"," ","3"," ","P","r","o"," ","(","H","i","g","h",")" >>,
     key |-> << "g","e","m","i","n","i","-","p","r","o","-","h","i","g","h" >>],
    [index |-> 1,
     name |-> << "G","e","m","i","n","i"," ","3"," ","P","r","o"," ","(","L","o","w",")" >>,
     key |-> << "g","e","m","i","n","i","-","p","r","o","-","l","o","w" >>],
    [index |-> 2,
     name |-> << "G","e","m","i","n","i"," ","3"," ","F","l","a","s","h" >>,
     key |-> << "g","e","m","i","n","i","-","f","l","a","s","h" >>],
    [index |-> 3,
     name |-> << "C","l","a","u","d","e"," ","S","o","n","n","e","t"," ","4",".","5" >>,
     key |-> << "c","l","a","u","d","e","-","s","o","n","n","e","t" >>],
    [index |-> 4,
     name |-> << "C","l","a","u","d","e"," ","S","o","n","n","e","t"," ","4",".","5",
                 " ","(","T","h","i","n","k","i","n","g",")" >>,
     key |-> << "c","l","a","u","d","e","-","s","o","n","n","e","t","-",
                "t","h","i","n","k","i","n","g" >>],
    [index |-> 5,
     name |-> << "C","l","a","u","d","e"," ","O","p","u","s"," ","4",".","5",
                 " ","(","T","h","i","n","k","i","n","g",")" >>,
     key |-> << "c","l","a","u","d","e","-","o","p","u","s","-",
                "t","h","i","n","k","i","n","g" >>],
    [index |-> 6,
     name |-> << "G","P","T","-","O","S","S"," ","1","2","0","B"," ","(","M","e","d","i","u","m",")" >>,
     key |-> << "g","p","t","-","o","s","s","-","1","2","0","b" >>] >>

\* a string selector is matched against the key only
MatchesKeyOnly(model, m) ==
    model.type = "string" /\ toLowerCase(m.key) = toLowerCase(model.s)

\* the test create() hands to find(): by index for a number, by name or key
\* for a string
Matches(model, m) ==
    IF model.type = "number" THEN m.index = model.n
    ELSE IF model.type = "string"
    THEN \/ includes(toLowerCase(m.name), toLowerCase(model.s))
         \/ toLowerCase(m.key) = toLowerCase(model.s)
    ELSE FALSE

\* modelInfo of create(): Array.prototype.find gives the first entry that
\* passes the test; here its position in the catalog, 0 for none
ModelInfo(model) ==
    LET hits == {k \in 1..Len(AVAILABLE_MODELS) : Matches(model, AVAILABLE_MODELS[k])}
    IN  IF hits = {} THEN 0 ELSE Min(hits)

\* the `model` of a request body
Undefined == [type |-> "undefined", n |-> 0, s |-> << >>]

Num(k) == [type |-> "number", n |-> k, s |-> << >>]

Str(s) == [type |-> "string", n |-> 0, s |-> s]

Selectors ==
    { Undefined, Num(2), Num(6), Num(7), Num(-1),
      Str(<< "c","l","a","u","d","e","-","s","o","n","n","e","t" >>),
      Str(<< "C","L","A","U","D","E","-","S","O","N","N","E","T" >>),
      Str(<< "c","l","a","u","d","e","-","s","o","n","n","e","t","-",
             "t","h","i","n","k","i","n","g" >>),
      Str(<< "T","h","i","n","k","i","n","g" >>),
      Str(<< "F","L","A","S","H" >>),
      Str(<< "l","l","a","m","a" >>),
      Str(<< >>) }

\* timeout_ms of a request body: 0 for none given
Timeouts == {0, 1}

DelegIds == 1..MaxDeleg

\* the status filters tried on GET /api/delegation
StatusFilters == {"", "in_progress", "completed"}

NoDop == [op |-> "", id |-> 0, ret |-> "", model |-> Undefined, modelInfo |-> 0,
          status |-> "", was |-> "", result |-> "null", error |-> "null"]

\* the handler, the id it was given and what it answered
Dop(op, id, ret) == dop' = [NoDop EXCEPT !.op = op, !.id = id, !.ret = ret]

\* create() and the model it was given with the modelInfo it resolved
DopCreate(id, ret, model, modelInfo) ==
    dop' = [NoDop EXCEPT !.op = "create", !.id = id, !.ret = ret, !.model = model,
                         !.modelInfo = modelInfo]

\* the continuation of create() after focusTab, with the model of the call
DopFocus(id, ret) ==
    dop' = [NoDop EXCEPT !.op = "focus", !.id = id, !.ret = ret,
                         !.model = creating[id].model,
                         !.modelInfo = creating[id].modelInfo]

\* list() and its filters
DopList(id, status) == dop' = [NoDop EXCEPT !.op = "list", !.id = id, !.status = status]

\* complete() with the result and the error of its body and the status it
\* found the record in
DopComplete(id, ret, was, result, error) ==
    dop' = [NoDop EXCEPT !.op = "complete", !.id = id, !.ret = ret, !.was = was,
                         !.result = result, !.error = error]

\* accept() and the status it found the record in
DopAccept(id, ret, was) ==
    dop' = [NoDop EXCEPT !.op = "accept", !.id = id, !.ret = ret, !.was = was]

\* a handler of the bridge or the queue: no delegation is touched, and the
\* MCP server is another process
Supervisor == << delegations, creating, nDeleg, now, mcp >>

NoDelegation ==
    /\ dop' = NoDop
    /\ UNCHANGED << Supervisor, lastBusyState >>

\* a POST /api/delegation in flight: the await it is at, its model and its
\* modelInfo
NotCreating == [pc |-> "none", model |-> Undefined, modelInfo |-> 0]

\* the MCP server's bridgeRequest: no call yet
NoRequest == [pc |-> "idle", attempt |-> 0, tries |-> << >>, waits |-> << >>,
              lastError |-> "null", ret |-> "none"]

InitMcp == mcp = NoRequest

\* the constructor leaves this.lastBusyState unset
InitPoll == lastBusyState = "undefined"

InitDelegations ==
    /\ delegations = << >>
    /\ creating = [d \in DelegIds |-> NotCreating]
    /\ nDeleg = 0
    /\ now = 0
    /\ dop = NoDop

\* STATE.delegations.find(d => d.id === id): the position, 0 when not found
FindDelegation(ds, id) ==
    IF \E k \in 1..Len(ds) : ds[k].id = id
    THEN Min({k \in 1..Len(ds) : ds[k].id = id})
    ELSE 0

\* ------------------------------------------------------------------- Init
Init ==
    /\ isConnected = FALSE
    /\ ws = 0
    /\ contexts = << >>
    /\ reconnectTimer = 0
    /\ requestId = FirstRequestId
    /\ pendingRequests = EmptyMap
    /\ sockets = [s \in SockIds |-> "none"]
    /\ finding = 0
    /\ started = 0
    /\ ideBusy = FALSE
    /\ calls = [c \in CallIds |-> NoCall]
    /\ actionQueue = << >>
    /\ agentBusy = FALSE
    /\ settled = [r \in ReqIds |-> 0]
    /\ pub = NoPub
    /\ dlog = << >>
    /\ nItems = 0
    /\ lastOp = NoOp
    /\ InitDelegations
    /\ InitMcp
    /\ InitPoll

\* ------------------------------------------------- the connection manager
\* a scheduleReconnect() that arms no timer
NoReschedule(timer) == timer

\* a scheduleReconnect() without the guard on this.reconnectTimer
AlwaysSchedule(timer) == timer + 1

\* scheduleReconnect(): `if (this.reconnectTimer) return;`, else one more
\* setTimeout callback is pending
ScheduleReconnect(timer) == IF timer > 0 THEN timer ELSE timer + 1

\* start(): connect() runs up to `await this.findTarget()`; n is the number
\* of call sites of start() in the server that runs the bridge
StartCall(n) ==
    /\ started < n
    /\ started' = started + 1
    /\ finding' = finding + 1
    /\ Quiet
    /\ calls' = Collected
    /\ UNCHANGED << isConnected, ws, contexts, reconnectTimer, requestId,
                    pendingRequests, sockets, ideBusy, actionQueue,
                    agentBusy, settled, pub, dlog, nItems >>
    /\ NoDelegation

\* main() of server.mjs calls start() once
Start == StartCall(1)

\* the server of part_000 calls start() when the module is loaded and again
\* in main(), after `await loadState()`
StartCalls == 2

StartTwice == StartCall(StartCalls)

\* connect(): findTarget() found nothing (or the attempt threw)
ConnectNoTarget ==
    /\ finding > 0
    /\ finding' = finding - 1
    /\ reconnectTimer' = ScheduleReconnect(reconnectTimer)
    /\ Op("notarget", 0)
    /\ calls' = Collected
    /\ UNCHANGED << isConnected, ws, contexts, requestId, pendingRequests, sockets,
                    started, ideBusy, actionQueue, agentBusy, settled, pub,
                    dlog, nItems >>
    /\ NoDelegation

\* connect(): a target was found, this.ws = new WebSocket(...)
ConnectTarget ==
    /\ finding > 0
    /\ \E s \in SockIds :
          /\ sockets[s] = "none"
          /\ \A t \in SockIds : t < s => sockets[t] # "none"
          /\ sockets' = [sockets EXCEPT ![s] = "connecting"]
          /\ ws' = s
          /\ Quiet
    /\ finding' = finding - 1
    /\ calls' = Collected
    /\ UNCHANGED << isConnected, contexts, reconnectTimer, requestId,
                    pendingRequests, started, ideBusy, actionQueue,
                    agentBusy, settled, pub, dlog, nItems >>
    /\ NoDelegation

\* the reconnect timer fires: this.reconnectTimer = null; this.connect()
ReconnectFire ==
    /\ reconnectTimer > 0
    /\ reconnectTimer' = reconnectTimer - 1
    /\ finding' = finding + 1
    /\ Quiet
    /\ calls' = Collected
    /\ UNCHANGED << isConnected, ws, contexts, requestId, pendingRequests, sockets,
                    started, ideBusy, actionQueue, agentBusy, settled, pub,
                    dlog, nItems >>
    /\ NoDelegation

\* ws.on('open'): isConnected = true; initializeSession() sends Runtime.enable
SocketOpen(s) ==
    /\ sockets[s] = "connecting"
    /\ sockets' = [sockets EXCEPT ![s] = "open"]
    /\ isConnected' = TRUE
    /\ IF ws # 0
       THEN /\ requestId <= MaxReq
            /\ requestId' = requestId + 1
            /\ pendingRequests' = MapSet(pendingRequests, requestId,
                                         [owner |-> 0, kind |-> "enable", ctx |-> 0])
       ELSE UNCHANGED << requestId, pendingRequests >>
    /\ Quiet
    /\ calls' = Collected
    /\ UNCHANGED << ws, contexts, reconnectTimer, finding, started, ideBusy,
                    actionQueue, agentBusy, settled, pub, dlog, nItems >>
    /\ NoDelegation

\* cleanup() without the rejection loop and the clear() of the pending map
CleanupKeepsPending ==
    [isConnected |-> FALSE, contexts |-> << >>, ws |-> 0,
     rejected |-> {}, error |-> "Connection closed",
     pendingRequests |-> pendingRequests]

\* cleanup(): what it leaves in isConnected, contexts, ws and the pending map
Cleanup ==
    [isConnected |-> FALSE, contexts |-> << >>, ws |-> 0,
     rejected |-> DOMAIN pendingRequests, error |-> "Connection closed",
     pendingRequests |-> EmptyMap]

\* ws.on('close'): cleanup(); scheduleReconnect()
SocketClose(s) ==
    /\ sockets[s] \in {"connecting", "open"}
    /\ sockets' = [sockets EXCEPT ![s] = "none"]
    /\ LET cl == Cleanup
           m == RejectAll([Machine EXCEPT !.pendingRequests = cl.pendingRequests],
                          cl.rejected, pendingRequests)
       IN  /\ isConnected' = cl.isConnected
           /\ contexts' = cl.contexts
           /\ ws' = cl.ws
           /\ settled' = Settle(settled, cl.rejected)
           /\ OpSettle("close", s, cl.rejected, cl.error)
           /\ Commit(m)
    /\ reconnectTimer' = ScheduleReconnect(reconnectTimer)
    /\ UNCHANGED << finding, started, ideBusy, nItems >>
    /\ NoDelegation

\* handleMessage taking the oldest pending entry instead of the one msg.id names
MatchOldest(pend, id) == IF DOMAIN pend # {} THEN Min(DOMAIN pend) ELSE 0

\* handleMessage: `msg.id && this.pendingRequests.has(msg.id)`; the id of the
\* pending entry a frame with id `id` settles, 0 when it settles none
MatchPending(pend, id) == IF id # 0 /\ id \in DOMAIN pend THEN id ELSE 0

\* handleMessage: this.pendingRequests.delete(msg.id)
DeletePending(pend, id) == MapDel(pend, id)

\* What the remote end can answer to a request of each kind.
Answers(kind) ==
    IF kind = "probe" THEN {"true", "false", "error"}
    ELSE IF kind = "action"
    THEN {"ok", "other", "error"} \cup (IF ideBusy THEN {"busy"} ELSE {})
    ELSE {"ok", "error"}

\* ws.on('message') with a frame that carries an id: handleMessage(raw)
HandleResponse(s, id, val) ==
    /\ sockets[s] = "open"
    /\ LET hit == MatchPending(pendingRequests, id)
       IN  IF hit = 0
           THEN /\ val = "ok"
                /\ Op("response", 0)
                /\ calls' = Collected
                /\ UNCHANGED << requestId, pendingRequests, actionQueue,
                                agentBusy, pub, dlog, settled >>
           ELSE LET e == pendingRequests[hit]
                    m0 == [Machine EXCEPT
                             !.pendingRequests = DeletePending(pendingRequests, hit)]
                    m == IF e.owner = 0 THEN m0
                         ELSE Wake(m0, e.owner, val, contexts, isConnected /\ ws # 0)
                IN  /\ val \in Answers(e.kind)
                    /\ settled' = Settle(settled, {hit})
                    /\ OpAnswer(id, hit, val)
                    /\ Commit(m)
    /\ UNCHANGED << isConnected, ws, contexts, reconnectTimer, sockets, finding,
                    started, ideBusy, nItems >>
    /\ NoDelegation

\* `this.contexts.set(ctx.id, ctx)`: a new key goes to the end of the Map's
\* order, a known key keeps its place
SetContext(ctxs, x) == IF SeqHas(ctxs, x) THEN ctxs ELSE Append(ctxs, x)

\* a destroyed notification that leaves the registry as it is
KeepContext(ctxs, x) == ctxs

\* `this.contexts.delete(msg.params.executionContextId)`
DeleteContext(ctxs, x) == SeqRemove(ctxs, x)

\* handleMessage: Runtime.executionContextCreated
ContextCreated(s, x) ==
    /\ sockets[s] = "open"
    /\ contexts' = SetContext(contexts, x)
    /\ Op("context_created", x)
    /\ calls' = Collected
    /\ UNCHANGED << isConnected, ws, reconnectTimer, requestId, pendingRequests,
                    sockets, finding, started, ideBusy, actionQueue,
                    agentBusy, settled, pub, dlog, nItems >>
    /\ NoDelegation

\* handleMessage: Runtime.executionContextDestroyed
ContextDestroyed(s, x) ==
    /\ sockets[s] = "open"
    /\ contexts' = DeleteContext(contexts, x)
    /\ Op("context_destroyed", x)
    /\ calls' = Collected
    /\ UNCHANGED << isConnected, ws, reconnectTimer, requestId, pendingRequests,
                    sockets, finding, started, ideBusy, actionQueue,
                    agentBusy, settled, pub, dlog, nItems >>
    /\ NoDelegation

\* handleMessage: Runtime.executionContextsCleared
ContextsCleared(s) ==
    /\ sockets[s] = "open"
    /\ contexts' = << >>
    /\ Op("contexts_cleared", 0)
    /\ calls' = Collected
    /\ UNCHANGED << isConnected, ws, reconnectTimer, requestId, pendingRequests,
                    sockets, finding, started, ideBusy, actionQueue,
                    agentBusy, settled, pub, dlog, nItems >>
    /\ NoDelegation

\* ------------------------------------------------ injectMessage, its callers
FreeSlot(S, c) ==
    /\ c \in S
    /\ calls[c].pc \in {"free", "done"}
    /\ \A d \in S : d < c => calls[d].pc \notin {"free", "done"}

\* injectMessage(text) from its first line to its first await
InjectMessage(m, c, who, item) ==
    LET m0 == [m EXCEPT !.calls[c] = [NoCall EXCEPT !.who = who, !.item = item,
                                                    !.alone = m.calls[c].alone]]
    IN  IF ~isConnected THEN Return(m0, c, "not_connected")
        ELSE FirstSweep(m0, c, contexts, isConnected /\ ws # 0)

\* POST /messages/send with to = 'agent'
DirectSend ==
    /\ \E c \in DirectIds :
          FreeSlot(DirectIds, c) /\ Commit(InjectMessage(Machine, c, "direct", 0))
    /\ Quiet
    /\ UNCHANGED << isConnected, ws, contexts, reconnectTimer, sockets, finding,
                    started, ideBusy, settled, nItems >>
    /\ NoDelegation

\* the 1000 ms timer between the sweeps fires: the retry sweep
SleepDone(c) ==
    /\ calls[c].pc = "sleep"
    /\ LET live == isConnected /\ ws # 0
           r == TryInjectAnyContext([Machine EXCEPT !.calls[c].phase = 2], c,
                                    contexts, live)
       IN  Commit(IF r[2] = "wait" THEN r[1]
                  ELSE AfterSweep(r[1], c, r[2], contexts, live))
    /\ Quiet
    /\ UNCHANGED << isConnected, ws, contexts, reconnectTimer, sockets, finding,
                    started, ideBusy, settled, nItems >>
    /\ NoDelegation

\* the agent starts or stops working: the cancel button shows or hides
IdeToggle ==
    /\ ideBusy' = ~ideBusy
    /\ Quiet
    /\ calls' = Collected
    /\ UNCHANGED << isConnected, ws, contexts, reconnectTimer, requestId,
                    pendingRequests, sockets, finding, started, actionQueue,
                    agentBusy, settled, pub, dlog, nItems >>
    /\ NoDelegation

\* ------------------------------------------------------- the action queue
\* a queue that takes new items at its head
PushFront(q, item) == << item >> \o q

\* Array.prototype.push
Push(q, item) == Append(q, item)

\* POST /api/queue: without text the request is refused; otherwise push,
\* saveState, broadcast; the position is the new length
Enqueue(text) ==
    /\ IF ~text
       THEN /\ Op("missing_text", 0)
            /\ UNCHANGED << nItems, actionQueue, pub >>
       ELSE /\ nItems < MaxItems
            /\ nItems' = nItems + 1
            /\ actionQueue' = Push(actionQueue, [id |-> nItems + 1, from |-> "api"])
            /\ pub' = Broadcast(pub, "queue_update", Len(actionQueue'))
            /\ Op("enqueue", Len(actionQueue'))
    /\ calls' = Collected
    /\ UNCHANGED << isConnected, ws, contexts, reconnectTimer, requestId,
                    pendingRequests, sockets, finding, started, ideBusy, agentBusy,
                    settled, dlog >>
    /\ NoDelegation

\* the tick that ignores AgentState.busy
TickGuardIgnoresBusy(q, busy) == Len(q) > 0

\* a tick that waits while a direct injectMessage call is in flight
TickGuardExclusive(q, busy) ==
    /\ Len(q) > 0
    /\ ~busy
    /\ \A d \in DirectIds : calls[d].pc \in {"free", "done"}

\* the tick: `STATE.actionQueue.length > 0 && !STATE.agent.busy`
TickGuard(q, busy) == Len(q) > 0 /\ ~busy

\* Another tick's delivery is in flight when a tick starts one.
Overlap(cs, c) ==
    [d \in CallIds |->
        IF d # c /\ cs[d].who = "tick" /\ cs[d].pc \notin {"free", "done"}
        THEN [cs[d] EXCEPT !.alone = FALSE] ELSE cs[d]]

Overlapped(cs, c) ==
    \E d \in CallIds : d # c /\ cs[d].who = "tick" /\ cs[d].pc \notin {"free", "done"}

\* setInterval(..., 2000): the queue processor's tick, up to its await; the
\* ticks in flight take their slots from S
Tick(S) ==
    /\ IF TickGuard(actionQueue, agentBusy)
       THEN \E c \in S :
              /\ FreeSlot(S, c)
              /\ LET m0 == [Machine EXCEPT !.calls = Overlap(Collected, c)]
                     m1 == [m0 EXCEPT !.calls[c] =
                              [NoCall EXCEPT !.alone = ~Overlapped(Collected, c)]]
                 IN  Commit(InjectMessage(m1, c, "tick", Head(actionQueue).id))
       ELSE /\ calls' = Collected
            /\ UNCHANGED << requestId, pendingRequests, actionQueue, agentBusy,
                            pub, dlog >>
    /\ Op("tick", 0)
    /\ UNCHANGED << isConnected, ws, contexts, reconnectTimer, sockets, finding,
                    started, ideBusy, settled, nItems >>
    /\ NoDelegation

\* a tick where at most MaxTicks deliveries are in flight
TickFire == Tick(TickIds)

\* a tick where up to MaxOverlap deliveries are in flight
TickOverlap == Tick(OverlapIds)

\* POST /api/stop: on every path STATE.agent.busy = false and
\* broadcast('agent_state', {busy: false})
ApiStop ==
    /\ agentBusy' = FALSE
    /\ pub' = Broadcast(pub, "agent_state", 0)
    /\ Op("stop", 0)
    /\ calls' = Collected
    /\ UNCHANGED << isConnected, ws, contexts, reconnectTimer, requestId,
                    pendingRequests, sockets, finding, started, ideBusy,
                    actionQueue, settled, dlog, nItems >>
    /\ NoDelegation

\* POST /messages/stop: stopAgent() catches what its requests throw, so the
\* handler always comes to `broadcast('agent_state', { busy: false })`; it
\* does not write STATE.agent
MessagesStop ==
    /\ pub' = Broadcast(pub, "agent_state", 0)
    /\ Op("messages_stop", 0)
    /\ calls' = Collected
    /\ UNCHANGED << isConnected, ws, contexts, reconnectTimer, requestId,
                    pendingRequests, sockets, finding, started, ideBusy,
                    actionQueue, agentBusy, settled, dlog, nItems >>
    /\ NoDelegation

\* `isBusy`: true when some context answered that the cancel button shows
BusyStr(b) == IF b THEN "true" ELSE "false"

\* the poller's interval callback, wired in main to broadcast(event, payload):
\* skipped when disconnected or without contexts; isBusy is true only when a
\* context answered true in time; it is published when it differs from
\* lastBusyState. STATE.agent is not written.
Poll(isBusy) ==
    /\ isConnected
    /\ contexts # << >>
    /\ isBusy => ideBusy
    /\ IF BusyStr(isBusy) # lastBusyState
       THEN /\ lastBusyState' = BusyStr(isBusy)
            /\ pub' = Broadcast(pub, "agent_state", IF isBusy THEN 1 ELSE 0)
       ELSE UNCHANGED << lastBusyState, pub >>
    /\ Op("poll", 0)
    /\ calls' = Collected
    /\ dop' = NoDop
    /\ UNCHANGED << isConnected, ws, contexts, reconnectTimer, requestId,
                    pendingRequests, sockets, finding, started, ideBusy,
                    actionQueue, agentBusy, settled, dlog, nItems, Supervisor >>

Connection ==
    \/ Start
    \/ ConnectNoTarget
    \/ ConnectTarget
    \/ ReconnectFire
    \/ \E s \in SockIds : SocketOpen(s)
    \/ \E s \in SockIds : SocketClose(s)

Values == {"true", "false", "ok", "busy", "other", "error"}

Frames ==
    \/ \E s \in SockIds, id \in ReqIds, val \in Values : HandleResponse(s, id, val)
    \/ \E s \in SockIds, x \in Ctx : ContextCreated(s, x)
    \/ \E s \in SockIds, x \in Ctx : ContextDestroyed(s, x)
    \/ \E s \in SockIds : ContextsCleared(s)

Next ==
    \/ Connection
    \/ Frames
    \/ DirectSend
    \/ \E c \in CallIds : SleepDone(c)
    \/ IdeToggle

Spec == Init /\ [][Next]_vars

\* The queue processor on an established session: the state the bridge is in
\* once the socket has opened and Runtime.enable has been answered.
InitQueue ==
    /\ isConnected = TRUE
    /\ ws = 1
    /\ contexts = << >>
    /\ reconnectTimer = 0
    /\ requestId = FirstRequestId + 1
    /\ pendingRequests = EmptyMap
    /\ sockets = [s \in SockIds |-> IF s = 1 THEN "open" ELSE "none"]
    /\ finding = 0
    /\ started = 1
    /\ ideBusy = FALSE
    /\ calls = [c \in CallIds |-> NoCall]
    /\ actionQueue = << >>
    /\ agentBusy = FALSE
    /\ settled = [r \in ReqIds |-> IF r = FirstRequestId THEN 1 ELSE 0]
    /\ pub = NoPub
    /\ dlog = << >>
    /\ nItems = 0
    /\ lastOp = NoOp
    /\ InitDelegations
    /\ InitMcp
    /\ InitPoll

NextQueue ==
    \/ \E text \in BOOLEAN : Enqueue(text)
    \/ TickFire
    \/ ApiStop
    \/ \E s \in SockIds, id \in ReqIds, val \in Values : HandleResponse(s, id, val)
    \/ \E s \in SockIds, x \in Ctx : ContextCreated(s, x)
    \/ \E c \in CallIds : SleepDone(c)
    \/ IdeToggle
    \/ \E s \in SockIds : SocketClose(s)

SpecQueue == InitQueue /\ [][NextQueue]_vars

\* The remote end answers a request that is pending.
Answer ==
    \E s \in SockIds, id \in DOMAIN pendingRequests, val \in Values :
        HandleResponse(s, id, val)

\* setInterval and setTimeout callbacks run; the remote end answers.
SpecQueueFair ==
    /\ SpecQueue
    /\ WF_vars(TickFire)
    /\ WF_vars(\E c \in CallIds : SleepDone(c))
    /\ WF_vars(Answer)

\* the delegation object a handler holds, changed in place; an object that was
\* shifted out of the list is no longer part of STATE
Put(ds, rec) == [k \in 1..Len(ds) |-> IF ds[k].id = rec.id THEN rec ELSE ds[k]]

\* `if (STATE.delegations.length > 50) STATE.delegations.shift()`
delegationCap == 50

\* a push without the cap
Uncapped(ds) == ds

Capped(ds) == IF Len(ds) > delegationCap THEN Tail(ds) ELSE ds

\* `timeout_ms || 300000`
defaultTimeout == 300000

\* the fields of a delegation the supervisor reads or writes after it made
\* the object; model and modelIndex stay in modelInfo while create() runs
NewDelegation(id, timeout_ms) ==
    [id |-> id,
     timeout_ms |-> IF timeout_ms = 0 THEN defaultTimeout ELSE timeout_ms,
     status |-> "pending", startedAt |-> null, acceptedAt |-> null,
     completedAt |-> null, result |-> "null", error |-> "null"]

\* everything of the bridge and the queue but STATE.actionQueue and the
\* broadcast
bridgeVars == << isConnected, ws, contexts, reconnectTimer, requestId,
                pendingRequests, sockets, finding, started, ideBusy, calls,
                agentBusy, settled, dlog, nItems, lastOp, lastBusyState, mcp >>

\* a Step 3 that queues the task and leaves the record pending
QueuedOnly(id) ==
    /\ delegations' = delegations
    /\ actionQueue' = Push(actionQueue, [id |-> id, from |-> "delegation"])
    /\ pub' = Broadcast(pub, "delegation_update", id)
    /\ creating' = [creating EXCEPT ![id] = NotCreating]

\* Step 3 of create(): in_progress, startedAt, the task pushed on the action
\* queue, then broadcast('delegation_update')
Dispatch(id) ==
    LET k == FindDelegation(delegations, id)
    IN  /\ delegations' =
              IF k = 0 THEN delegations
              ELSE Put(delegations, [delegations[k] EXCEPT !.status = "in_progress",
                                                           !.startedAt = now])
        /\ actionQueue' = Push(actionQueue, [id |-> id, from |-> "delegation"])
        /\ pub' = Broadcast(pub, "delegation_update", id)
        /\ creating' = [creating EXCEPT ![id] = NotCreating]

\* a failed focus that leaves the record as it is
FocusIgnored(ds, id) == ds

\* the focus failed: status failed, the error, broadcast, return
FocusFailed(ds, id) ==
    LET k == FindDelegation(ds, id)
    IN  IF k = 0 THEN ds
        ELSE Put(ds, [ds[k] EXCEPT !.status = "failed", !.error = "Tab focus failed"])

\* POST /api/delegation up to `await cdpBridge.focusTab(target_tab)`; focusTab
\* answers not_connected without a round trip when the bridge is down
CreateDelegation(valid, model, timeout_ms) ==
    /\ nDeleg < MaxDeleg
    /\ IF ~valid
       THEN /\ DopCreate(0, "missing_target_tab_or_task", model, 0)
            /\ UNCHANGED << delegations, creating, nDeleg, pub >>
       ELSE LET id == nDeleg + 1
                ds == Capped(Append(delegations, NewDelegation(id, timeout_ms)))
            IN  /\ nDeleg' = id
                /\ DopCreate(id, "", model, ModelInfo(model))
                /\ IF isConnected
                   THEN /\ delegations' = ds
                        /\ creating' = [creating EXCEPT ![id] =
                                           [pc |-> "focus", model |-> model,
                                            modelInfo |-> ModelInfo(model)]]
                        /\ pub' = pub
                   ELSE /\ delegations' = FocusFailed(ds, id)
                        /\ pub' = Broadcast(pub, "delegation_update", id)
                        /\ creating' = creating
    /\ UNCHANGED << now, actionQueue, bridgeVars >>

\* focusTab answered. Failure ends the call; success goes on to the model
\* switch when a model was resolved and to Step 3 otherwise. focusTab cannot
\* succeed on a connection that has gone down: its requests are rejected.
FocusReturn(id, ok) ==
    /\ creating[id].pc = "focus"
    /\ ok => isConnected
    /\ IF ~ok
       THEN /\ delegations' = FocusFailed(delegations, id)
            /\ pub' = Broadcast(pub, "delegation_update", id)
            /\ creating' = [creating EXCEPT ![id] = NotCreating]
            /\ DopFocus(id, "failed")
            /\ UNCHANGED actionQueue
       ELSE IF creating[id].modelInfo # 0
       THEN /\ creating' = [creating EXCEPT ![id].pc = "switch"]
            /\ DopFocus(id, "switch")
            /\ UNCHANGED << delegations, pub, actionQueue >>
       ELSE /\ Dispatch(id)
            /\ DopFocus(id, "dispatched")
    /\ UNCHANGED << nDeleg, now, bridgeVars >>

\* Step 2 of create() is over: the 500 ms wait, the model switch expression
\* (whose failure is swallowed) and the 300 ms wait change nothing in STATE
SwitchReturn(id) ==
    /\ creating[id].pc = "switch"
    /\ Dispatch(id)
    /\ Dop("switch", id, "dispatched")
    /\ UNCHANGED << nDeleg, now, bridgeVars >>

\* the id and status filters of GET /api/delegation; 0 and "" for none given
Selected(d, id, status) ==
    /\ id # 0 => d.id = id
    /\ status # "" => d.status = status

\* the sweep ignores the filters
SelectedAll(d, id, status) == TRUE

\* `d.status === 'in_progress' && d.startedAt` and `elapsed > d.timeout_ms`
Expired(d, t) ==
    /\ d.status = "in_progress"
    /\ d.startedAt # null
    /\ t - d.startedAt > d.timeout_ms

\* GET /api/delegation: filter, then flip the expired records among the
\* filtered ones to timeout, then answer with the filtered records
ListDelegations(id, status) ==
    LET flip(d) == Selected(d, id, status) /\ Expired(d, now)
    IN  /\ delegations' =
              [k \in 1..Len(delegations) |->
                  IF flip(delegations[k])
                  THEN [delegations[k] EXCEPT !.status = "timeout",
                                              !.error = "Timeout after"]
                  ELSE delegations[k]]
        /\ DopList(id, status)
        /\ UNCHANGED << creating, nDeleg, now, actionQueue, pub, bridgeVars >>

\* the values a body field takes: "null" when it is absent (or null), "" the
\* empty string, and a text
BodyTexts(text) == {"null", "", text}

\* a JavaScript condition on a body field: absent and empty are falsy
Truthy(x) == x # "null" /\ x # ""

\* `x || null`
OrNull(x) == IF Truthy(x) THEN x ELSE "null"

\* complete() that takes no notice of the error
AlwaysCompleted(error) == "completed"

\* `error ? 'failed' : 'completed'`
CompletedStatus(error) == IF Truthy(error) THEN "failed" ELSE "completed"

\* POST /api/delegation/:id/complete
CompleteDelegation(id, result, error) ==
    LET k == FindDelegation(delegations, id)
    IN  /\ IF k = 0
           THEN /\ DopComplete(id, "not_found", "", result, error)
                /\ UNCHANGED << delegations, pub >>
           ELSE /\ delegations' =
                      Put(delegations,
                          [delegations[k] EXCEPT
                              !.status = CompletedStatus(error),
                              !.completedAt = now,
                              !.result = OrNull(result),
                              !.error = OrNull(error)])
                /\ pub' = Broadcast(pub, "delegation_update", id)
                /\ DopComplete(id, "", delegations[k].status, result, error)
        /\ UNCHANGED << creating, nDeleg, now, actionQueue, bridgeVars >>

\* accept() that does not look at the status
Reclaimable(d) == TRUE

\* `delegation.status === 'completed'` answers already_completed
Acceptable(d) == d.status # "completed"

\* accept() that puts the record back to pending
Requeued(d, t) == [d EXCEPT !.status = "pending", !.acceptedAt = t, !.startedAt = t]

\* accept() that leaves the timeout clock running
Claimed(d, t) == [d EXCEPT !.status = "in_progress", !.acceptedAt = t]

\* in_progress, acceptedAt, and startedAt reset ("Reset timeout clock")
Accepted(d, t) == [d EXCEPT !.status = "in_progress", !.acceptedAt = t, !.startedAt = t]

\* POST /api/delegation/:id/accept
AcceptDelegation(id) ==
    LET k == FindDelegation(delegations, id)
    IN  /\ IF k = 0
           THEN /\ DopAccept(id, "not_found", "")
                /\ UNCHANGED << delegations, pub >>
           ELSE IF ~Acceptable(delegations[k])
           THEN /\ DopAccept(id, "already_completed", delegations[k].status)
                /\ UNCHANGED << delegations, pub >>
           ELSE /\ delegations' = Put(delegations, Accepted(delegations[k], now))
                /\ pub' = Broadcast(pub, "delegation_update", id)
                /\ DopAccept(id, "", delegations[k].status)
        /\ UNCHANGED << creating, nDeleg, now, actionQueue, bridgeVars >>

\* time passes
Advance ==
    /\ now < MaxTime
    /\ now' = now + 1
    /\ dop' = NoDop
    /\ UNCHANGED << delegations, creating, nDeleg, actionQueue, pub, bridgeVars >>

NextCall ==
    \/ DirectSend
    \/ Frames
    \/ \E c \in CallIds : SleepDone(c)
    \/ IdeToggle
    \/ \E s \in SockIds : SocketClose(s)

\* The remote end answers the pending request `id`.
AnswerTo(id) ==
    /\ id \in DOMAIN pendingRequests
    /\ \E s \in SockIds, val \in Values : HandleResponse(s, id, val)

\* POST /messages/send calls on an established session that may be lost
\* during a call, with the 1000 ms timer of each injectMessage call firing and
\* the remote end answering each request that is pending.
SpecCallFair ==
    /\ InitQueue
    /\ [][NextCall]_vars
    /\ \A c \in DirectIds : WF_vars(SleepDone(c))
    /\ \A id \in ReqIds : WF_vars(AnswerTo(id))

\* The same calls with the timers of injectMessage firing and nothing assumed
\* of the remote end: a request may stay unanswered for ever.
SpecTimerFair ==
    /\ InitQueue
    /\ [][NextCall]_vars
    /\ \A c \in DirectIds : WF_vars(SleepDone(c))

\* The bridge with start() called by main, the reconnect timer firing, and
\* findTarget() and the socket's handshake coming to an end.
SpecConnFair ==
    /\ Spec
    /\ WF_vars(Start)
    /\ WF_vars(ReconnectFire)
    /\ WF_vars(ConnectNoTarget \/ ConnectTarget)
    /\ WF_vars(\E s \in SockIds : SocketOpen(s))

\* The supervisor on an established session with one execution context.
InitDeleg ==
    /\ isConnected = TRUE
    /\ ws = 1
    /\ contexts = << 1 >>
    /\ reconnectTimer = 0
    /\ requestId = FirstRequestId + 1
    /\ pendingRequests = EmptyMap
    /\ sockets = [s \in SockIds |-> IF s = 1 THEN "open" ELSE "none"]
    /\ finding = 0
    /\ started = 1
    /\ ideBusy = FALSE
    /\ calls = [c \in CallIds |-> NoCall]
    /\ actionQueue = << >>
    /\ agentBusy = FALSE
    /\ settled = [r \in ReqIds |-> IF r = FirstRequestId THEN 1 ELSE 0]
    /\ pub = NoPub
    /\ dlog = << >>
    /\ nItems = 0
    /\ lastOp = NoOp
    /\ InitDelegations
    /\ InitMcp
    /\ InitPoll

NextDeleg ==
    \/ \E valid \in BOOLEAN, model \in Selectors, t \in Timeouts :
          CreateDelegation(valid, model, t)
    \/ \E id \in DelegIds, ok \in BOOLEAN : FocusReturn(id, ok)
    \/ \E id \in DelegIds : SwitchReturn(id)
    \/ \E id \in 0..(MaxDeleg + 1), status \in StatusFilters :
          ListDelegations(id, status)
    \/ \E id \in DelegIds, result \in BodyTexts("r"), error \in BodyTexts("e") :
          CompleteDelegation(id, result, error)
    \/ \E id \in DelegIds : AcceptDelegation(id)
    \/ Advance
    \/ \E s \in SockIds : SocketClose(s)

SpecDeleg == InitDeleg /\ [][NextDeleg]_vars

\* The bridge under the server that calls start() twice: both connect() calls
\* look for a target, open sockets and install their handlers.
NextTwice ==
    \/ StartTwice
    \/ ConnectNoTarget
    \/ ConnectTarget
    \/ ReconnectFire
    \/ \E s \in SockIds : SocketOpen(s)
    \/ \E s \in SockIds : SocketClose(s)
    \/ \E s \in SockIds, id \in ReqIds, val \in Values : HandleResponse(s, id, val)
    \/ \E s \in SockIds, x \in Ctx : ContextCreated(s, x)

SpecTwice == Init /\ [][NextTwice]_vars

\* ... with the 5 s reconnect timer firing
SpecTwiceFair == SpecTwice /\ WF_vars(ReconnectFire)

\* POST /messages/send to the agent next to the queue processor, on an
\* established session with one execution context.
NextRace ==
    \/ Enqueue(TRUE)
    \/ TickFire
    \/ DirectSend
    \/ \E s \in SockIds, id \in ReqIds, val \in Values : HandleResponse(s, id, val)
    \/ \E c \in CallIds : SleepDone(c)

SpecRace == InitDeleg /\ [][NextRace]_vars

\* AgentState.busy and the agent_state events: the queue processor, the busy
\* poller and the two stop requests on an established session.
NextBusy ==
    \/ Enqueue(TRUE)
    \/ TickFire
    \/ ApiStop
    \/ MessagesStop
    \/ \E isBusy \in BOOLEAN : Poll(isBusy)
    \/ IdeToggle
    \/ \E s \in SockIds, id \in ReqIds, val \in Values : HandleResponse(s, id, val)
    \/ \E c \in CallIds : SleepDone(c)

SpecBusy == InitDeleg /\ [][NextBusy]_vars

\* The supervisor at the cap: loadState() has read n delegations from the
\* state file, the oldest in status st, the others completed; their ids are
\* not the ids of the delegations created afterwards.
Stored(n, st) ==
    [k \in 1..n |->
        [NewDelegation(MaxDeleg + k, 1) EXCEPT
            !.status = IF k = 1 THEN st ELSE "completed",
            !.startedAt = IF k = 1 /\ st = "pending" THEN null ELSE 0]]

InitCap ==
    /\ isConnected = TRUE
    /\ ws = 1
    /\ contexts = << 1 >>
    /\ reconnectTimer = 0
    /\ requestId = FirstRequestId + 1
    /\ pendingRequests = EmptyMap
    /\ sockets = [s \in SockIds |-> IF s = 1 THEN "open" ELSE "none"]
    /\ finding = 0
    /\ started = 1
    /\ ideBusy = FALSE
    /\ calls = [c \in CallIds |-> NoCall]
    /\ actionQueue = << >>
    /\ agentBusy = FALSE
    /\ settled = [r \in ReqIds |-> IF r = FirstRequestId THEN 1 ELSE 0]
    /\ pub = NoPub
    /\ dlog = << >>
    /\ nItems = 0
    /\ lastOp = NoOp
    /\ \E n \in {delegationCap - 1, delegationCap},
          st \in {"pending", "in_progress", "completed", "failed", "timeout"} :
          delegations = Stored(n, st)
    /\ creating = [d \in DelegIds |-> NotCreating]
    /\ nDeleg = 0
    /\ now = 0
    /\ dop = NoDop
    /\ InitMcp
    /\ InitPoll

\* the oldest stored record and the first one created
CapIds == {1, MaxDeleg + 1}

NextCap ==
    \/ \E t \in Timeouts : CreateDelegation(TRUE, Undefined, t)
    \/ \E id \in DelegIds, ok \in BOOLEAN : FocusReturn(id, ok)
    \/ \E id \in CapIds : CompleteDelegation(id, "r", "null")
    \/ \E id \in CapIds : AcceptDelegation(id)

SpecCap == InitCap /\ [][NextCap]_vars

\* The supervisor together with the queue processor: delegations without a
\* model are created, listed without filters and completed while ticks
\* deliver what create() queued.
NextTask ==
    \/ \E t \in Timeouts : CreateDelegation(TRUE, Undefined, t)
    \/ \E id \in DelegIds, ok \in BOOLEAN : FocusReturn(id, ok)
    \/ \E id \in DelegIds, error \in {"null", "e"} : CompleteDelegation(id, "r", error)
    \/ ListDelegations(0, "")
    \/ Advance
    \/ TickFire
    \/ \E s \in SockIds, id \in ReqIds, val \in Values : HandleResponse(s, id, val)
    \/ \E c \in CallIds : SleepDone(c)

SpecTask == InitDeleg /\ [][NextTask]_vars

\* The queue processor with the interval timer firing while deliveries are
\* in flight, on an established session with one execution context.
NextOverlap ==
    \/ \E text \in BOOLEAN : Enqueue(text)
    \/ TickOverlap
    \/ \E s \in SockIds, id \in ReqIds, val \in Values : HandleResponse(s, id, val)
    \/ \E c \in CallIds : SleepDone(c)

SpecOverlap == InitDeleg /\ [][NextOverlap]_vars

\* ------------------------------------------- the MCP server's bridgeRequest
MAX_RETRIES == 5

RETRY_DELAY_MS == 500

\* Math.pow(2, n)
RECURSIVE Pow2(_)
Pow2(n) == IF n <= 0 THEN 1 ELSE 2 * Pow2(n - 1)

\* a retry that waits the same time after every failure
FixedDelay(attempt) == RETRY_DELAY_MS

\* `RETRY_DELAY_MS * Math.pow(2, attempt - 1)`
Backoff(attempt) == RETRY_DELAY_MS * Pow2(attempt - 1)

\* how one attempt ends: the parsed body, or an exception from a response
\* that is not ok, from fetch (network), from the 10 s abort, or from
\* response.json()
Outcomes == {"json", "http", "network", "abort", "parse"}

\* everything the server process holds
serverVars == << isConnected, ws, contexts, reconnectTimer, requestId,
                pendingRequests, sockets, finding, started, ideBusy, calls,
                actionQueue, agentBusy, settled, pub, dlog, nItems,
                delegations, creating, nDeleg, now, lastBusyState >>

\* a tool handler calls bridgeRequest: attempt = 1, the first fetch is sent
BridgeRequest ==
    /\ mcp.pc \in {"idle", "done"}
    /\ mcp' = [NoRequest EXCEPT !.pc = "fetch", !.attempt = 1]
    /\ lastOp' = NoOp
    /\ dop' = NoDop
    /\ UNCHANGED serverVars

\* the attempt ends. The body is returned; an exception is caught, kept as
\* lastError, and followed by the backoff wait unless this was the last
\* attempt, after which the loop ends and the failure value is returned
FetchReturn(outcome) ==
    /\ mcp.pc = "fetch"
    /\ mcp' =
          IF outcome = "json"
          THEN [mcp EXCEPT !.pc = "done", !.tries = Append(@, outcome), !.ret = "json"]
          ELSE IF mcp.attempt < MAX_RETRIES
          THEN [mcp EXCEPT !.pc = "wait", !.tries = Append(@, outcome),
                           !.lastError = outcome,
                           !.waits = Append(@, Backoff(mcp.attempt))]
          ELSE [mcp EXCEPT !.pc = "done", !.tries = Append(@, outcome),
                           !.lastError = outcome,
                           !.attempt = @ + 1,
                           !.ret = "failed"]
    /\ lastOp' = NoOp
    /\ dop' = NoDop
    /\ UNCHANGED serverVars

\* the backoff timer fires: attempt++ and the next fetch is sent
BackoffDone ==
    /\ mcp.pc = "wait"
    /\ mcp' = [mcp EXCEPT !.pc = "fetch", !.attempt = @ + 1]
    /\ lastOp' = NoOp
    /\ dop' = NoDop
    /\ UNCHANGED serverVars

NextRetry ==
    \/ BridgeRequest
    \/ \E outcome \in Outcomes : FetchReturn(outcome)
    \/ BackoffDone

\* The MCP server's requests to the bridge, whatever the bridge answers.
SpecRetry == Init /\ [][NextRetry]_vars

\* ---------------------------------------------------------------- properties

\* C1: a response frame with id i settles exactly the pending entry registered
\* with id i, at most once, and removes it, in whatever order responses come;
\* a frame whose id matches no pending entry settles no request. A suspended
\* call always awaits an entry that is still pending and its own.
C1_State ==
    /\ \A r \in ReqIds :
          /\ settled[r] <= 1
          /\ r \in DOMAIN pendingRequests => settled[r] = 0 /\ r < requestId
    /\ lastOp.op = "response" => lastOp.ids \subseteq {lastOp.a}
    /\ \A c \in CallIds :
          calls[c].pc \in {"probe", "action"} =>
            /\ calls[c].req \in DOMAIN pendingRequests
            /\ pendingRequests[calls[c].req].owner = c

C1_Step ==
    /\ lastOp'.op = "response" /\ lastOp'.a # 0 =>
          /\ lastOp'.a \in DOMAIN pendingRequests
          /\ \A r \in DOMAIN pendingRequests \ {lastOp'.a} :
                r \in DOMAIN pendingRequests' /\ pendingRequests'[r] = pendingRequests[r]
          /\ lastOp'.a \notin DOMAIN pendingRequests'
          /\ settled' = [settled EXCEPT ![lastOp'.a] = 1]
    /\ lastOp'.op = "response" /\ lastOp'.a = 0 =>
          /\ settled' = settled
          /\ pendingRequests' = pendingRequests
          /\ calls' = Collected

C1_ResponseSettlesMatchingEntry == []C1_State /\ [][C1_Step]_vars

\* Responses out of order: request 1 is answered after request 2 was.
C1_Witness ==
    /\ lastOp.op = "response" /\ lastOp.a = 1 /\ lastOp.ids = {1}
    /\ settled[2] = 1
    /\ 3 \in DOMAIN pendingRequests

\* C2: a socket close marks the manager disconnected, empties the context
\* registry, rejects every request that was pending exactly once with the
\* connection-closed error, and leaves the pending map empty.
C2_Step ==
    (\E s \in SockIds : sockets[s] # "none" /\ sockets'[s] = "none") =>
        /\ ~isConnected'
        /\ contexts' = << >>
        /\ pendingRequests' = EmptyMap
        /\ lastOp'.op = "close"
        /\ lastOp'.ids = DOMAIN pendingRequests
        /\ lastOp'.err = "Connection closed"
        /\ \A r \in ReqIds :
              settled'[r] = IF r \in DOMAIN pendingRequests THEN 1 ELSE settled[r]
        /\ \A c \in CallIds : calls'[c].pc \notin {"probe", "action"}

C2_CloseRejectsAllPending == [][C2_Step]_vars

\* A close that found two requests pending and contexts registered.
C2_Witness ==
    /\ lastOp.op = "close" /\ Cardinality(lastOp.ids) >= 2
    /\ ~isConnected /\ contexts = << >> /\ pendingRequests = EmptyMap
    /\ \A r \in lastOp.ids : settled[r] = 1

\* C3: once the action expression has returned the busy result in some context,
\* the injectMessage call has returned: it evaluates nothing further.
C3_BusyReturnsAtOnce ==
    \A c \in CallIds : calls[c].sawBusy => calls[c].pc = "done"

\* C4: a call in which a sweep yielded Busy returns {ok:false, error:'busy'}.
C4_BusyPropagates ==
    \A c \in CallIds :
        calls[c].sawBusy /\ calls[c].pc = "done" => calls[c].ret = "busy"

\* C5: with the connection up, ticks firing and the remote end answering, once
\* the IDE is idle and stays idle (and request ids are left to send with) the
\* queued items are eventually delivered: the queue ends up empty and stays so.
C5_QueueEventuallyDrains ==
    <>[](~ideBusy /\ isConnected /\ requestId <= MaxReq) => <>[](actionQueue = << >>)

\* C6: a tick that fires while AgentState.busy is true removes no item and
\* submits nothing to the Prober, whatever the queue holds.
C6_Step ==
    lastOp'.op = "tick" /\ agentBusy =>
        /\ actionQueue' = actionQueue
        /\ calls' = Collected
        /\ requestId' = requestId
        /\ pendingRequests' = pendingRequests
        /\ dlog' = dlog

C6_BusyTickDoesNothing == [][C6_Step]_vars

\* A tick has just fired with the busy flag set and a full queue.
C6_Witness ==
    /\ lastOp.op = "tick" /\ agentBusy
    /\ Len(actionQueue) = MaxItems
    /\ \A c \in CallIds : calls[c].pc = "free"

\* C7: while every tick so far ended in a successful delivery, one tick at a
\* time, the k-th delivery delivers and pops the k-th item enqueued and
\* publishes queue_update with the count (items enqueued) - k: N-1, ..., 0 for
\* N items enqueued beforehand; what is left is the rest of the queue in order.
AllDelivered ==
    \A k \in 1..Len(dlog) : dlog[k].kind = "success" /\ dlog[k].alone

C7_State ==
    AllDelivered =>
        /\ \A k \in 1..Len(dlog) :
              /\ dlog[k].item = k
              /\ dlog[k].popped = k
              /\ dlog[k].count = dlog[k].enq - k
        /\ Len(actionQueue) = nItems - Len(dlog)
        /\ \A j \in 1..Len(actionQueue) : actionQueue[j].id = Len(dlog) + j

\* each successful delivery pops one item and publishes one queue_update
C7_Step ==
    (Len(dlog') = Len(dlog) + 1 /\ dlog'[Len(dlog')].kind = "success") =>
        /\ pub' = [ev |-> "queue_update", val |-> Len(actionQueue'), flip |-> ~pub.flip]
        /\ actionQueue' = Shift(actionQueue)
        /\ dlog'[Len(dlog')].count = Len(actionQueue')

C7_DrainInOrder == []C7_State /\ [][C7_Step]_vars

\* MaxItems items were enqueued, then as many ticks delivered them.
C7_Witness ==
    /\ AllDelivered
    /\ Len(dlog) = MaxItems
    /\ \A k \in 1..Len(dlog) : dlog[k].enq = MaxItems
    /\ actionQueue = << >>
    /\ pub = [ev |-> "queue_update", val |-> 0, flip |-> pub.flip]

\* C8: lazy timeout. A list() call leaves every record that was in_progress
\* with more than its timeout_ms elapsed since startedAt in status timeout with
\* an error; no other operation puts a record in status timeout.
C8_Overdue(d) == d.status = "in_progress" /\ now - d.startedAt > d.timeout_ms

C8_Step ==
    /\ dop'.op = "list" =>
          \A k \in 1..Len(delegations) :
              C8_Overdue(delegations[k]) =>
                  /\ delegations'[k].status = "timeout"
                  /\ delegations'[k].error # "null"
    /\ dop'.op # "list" =>
          \A k \in 1..Len(delegations') :
              delegations'[k].status = "timeout" =>
                  k <= Len(delegations) /\ delegations[k].status = "timeout"

C8_LazyTimeout == [][C8_Step]_vars

\* C9: accept(id) on a completed delegation answers already_completed, leaves
\* every field of every record as it was and publishes nothing.
C9_Step ==
    (/\ dop'.op = "accept"
     /\ \E k \in 1..Len(delegations) :
           delegations[k].id = dop'.id /\ delegations[k].status = "completed") =>
        /\ dop'.ret = "already_completed"
        /\ delegations' = delegations
        /\ pub' = pub

C9_AcceptCompletedRejected == [][C9_Step]_vars

\* accept() was just refused on a delegation that had been accepted and then
\* completed with a result
C9_Witness ==
    /\ dop.op = "accept" /\ dop.ret = "already_completed"
    /\ \E k \in 1..Len(delegations) :
          /\ delegations[k].id = dop.id
          /\ delegations[k].status = "completed"
          /\ delegations[k].result = "r"
          /\ delegations[k].acceptedAt # null
          /\ delegations[k].completedAt > delegations[k].acceptedAt

\* C10: model resolution in create(). A number k resolves to the catalog entry
\* with index k, to no model when there is none; a string resolves to an entry
\* whose key equals it or whose name contains it, case-insensitively, to no
\* model when no entry does; 2 gives the 3rd entry and "claude-sonnet" the
\* entry with that key. Without a model no model switch is made and the
\* delegation is in_progress as soon as the focus has succeeded.
C10_Fits(model, m) ==
    IF model.type = "number" THEN m.index = model.n
    ELSE /\ model.type = "string"
         /\ \/ toLowerCase(m.key) = toLowerCase(model.s)
            \/ includes(toLowerCase(m.name), toLowerCase(model.s))

C10_Resolved(model, modelInfo) ==
    /\ modelInfo # 0 => C10_Fits(model, AVAILABLE_MODELS[modelInfo])
    /\ modelInfo = 0 => \A k \in 1..Len(AVAILABLE_MODELS) :
                            ~C10_Fits(model, AVAILABLE_MODELS[k])
    /\ model = Num(2) => modelInfo = 3
    /\ model = Str(<< "c","l","a","u","d","e","-","s","o","n","n","e","t" >>) =>
          /\ modelInfo # 0
          /\ AVAILABLE_MODELS[modelInfo].key = model.s

C10_Step ==
    /\ (dop'.op = "create" /\ dop'.id # 0) =>
          /\ C10_Resolved(dop'.model, dop'.modelInfo)
          /\ creating'[dop'.id].pc # "none" =>
                creating'[dop'.id].modelInfo = dop'.modelInfo
    /\ (dop'.op = "focus" /\ dop'.ret # "failed" /\ dop'.modelInfo = 0) =>
          /\ dop'.ret = "dispatched"
          /\ creating'[dop'.id].pc = "none"
          /\ \E k \in 1..Len(delegations') :
                /\ delegations'[k].id = dop'.id
                /\ delegations'[k].status = "in_progress"
    /\ dop'.op = "switch" => creating[dop'.id].modelInfo # 0

C10_ModelResolution == [][C10_Step]_vars

\* a delegation created with a string that matches no entry was dispatched
\* right after its focus succeeded
C10_Witness ==
    /\ dop.op = "focus" /\ dop.ret = "dispatched"
    /\ dop.model = Str(<< "l","l","a","m","a" >>)
    /\ \E k \in 1..Len(delegations) :
          delegations[k].id = dop.id /\ delegations[k].status = "in_progress"

\* C11: injectMessage never throws or rejects. A call that has returned
\* returned one of the structured values; not_connected is the value of a call
\* made while disconnected, and of no other; a call with no success and no
\* busy answer returns editor_not_found_in_any_context. While request ids are
\* left and every outstanding send settles, a call in flight returns.
Structured == {"ok", "busy", "not_connected", "editor_not_found_in_any_context"}

InFlight(c) == calls[c].pc \notin {"free", "done"}

C11_State ==
    \A c \in CallIds :
        calls[c].pc = "done" =>
            /\ calls[c].ret \in Structured
            /\ calls[c].ret = "busy" => calls[c].sawBusy

C11_Step ==
    \A c \in CallIds :
        /\ (~InFlight(c) /\ calls'[c].pc # "free" /\ ~isConnected) =>
              calls'[c].pc = "done" /\ calls'[c].ret = "not_connected"
        /\ (calls'[c].pc = "done" /\ calls'[c].ret = "not_connected") =>
              ~InFlight(c) /\ ~isConnected

C11_Returns ==
    \A c \in DirectIds : InFlight(c) ~> (~InFlight(c) \/ requestId > MaxReq)

C11_NeverThrows == []C11_State /\ [][C11_Step]_vars /\ C11_Returns

\* a call ended with editor_not_found_in_any_context in the step that closed
\* the socket under it
C11_Witness ==
    /\ lastOp.op = "close" /\ ~isConnected
    /\ \E c \in CallIds :
          /\ calls[c].pc = "done"
          /\ calls[c].ret = "editor_not_found_in_any_context"
          /\ calls[c].offline

\* C12: send() called while there is no live session (isConnected false or no
\* socket) rejects and does nothing else: the step in which a call's send was
\* refused hands out no request id, registers no pending entry (a frame is
\* written only together with its entry), and the caller is not left awaiting
\* a response.
C12_Step ==
    \A c \in CallIds :
        (InFlight(c) /\ calls'[c].offline) =>
            /\ requestId' = requestId
            /\ DOMAIN pendingRequests' \subseteq DOMAIN pendingRequests
            /\ calls'[c].pc \in {"sleep", "done"}

C12_SendOffline == [][C12_Step]_vars

\* a send was refused in the close handler and the call went on to its wait
C12_Witness ==
    /\ lastOp.op = "close"
    /\ ~isConnected
    /\ \E c \in CallIds : calls[c].offline /\ calls[c].pc = "sleep"

\* C13: a POST /api/queue with a text appends exactly one item at the tail of
\* the action queue, leaves the items already queued and their order as they
\* were, and answers with the new length as the position, also while a tick's
\* delivery is in flight.
C13_Step ==
    lastOp'.op = "enqueue" =>
        /\ Len(actionQueue') = Len(actionQueue) + 1
        /\ SubSeq(actionQueue', 1, Len(actionQueue)) = actionQueue
        /\ \A k \in 1..Len(actionQueue) :
              actionQueue[k].id # actionQueue'[Len(actionQueue')].id
        /\ lastOp'.a = Len(actionQueue')

C13_EnqueueAppends == [][C13_Step]_vars

\* an item was appended behind the head while a tick was delivering the head
C13_Witness ==
    /\ lastOp.op = "enqueue"
    /\ Len(actionQueue) = 2
    /\ \E c \in TickIds : calls[c].pc \in {"probe", "action"}

\* C14: when focusTab fails in create(), the delegation gets status failed and
\* an error, the change is broadcast, and create() returns there: nothing is
\* pushed on the action queue in that step, and an item of a delegation is
\* pushed only by a create() still running whose focus succeeded, so none is
\* ever pushed for the failed one.
C14_FocusFails ==
    \/ dop'.op = "focus" /\ dop'.ret = "failed"
    \/ dop'.op = "create" /\ dop'.id # 0 /\ ~isConnected

C14_Queued(q, d) == \E k \in 1..Len(q) : q[k].from = "delegation" /\ q[k].id = d

C14_Step ==
    /\ C14_FocusFails =>
          LET k == FindDelegation(delegations', dop'.id)
          IN  /\ k # 0
              /\ delegations'[k].status = "failed"
              /\ delegations'[k].error # "null"
              /\ pub' = Broadcast(pub, "delegation_update", dop'.id)
              /\ actionQueue' = actionQueue
              /\ creating'[dop'.id].pc = "none"
    /\ \A d \in DelegIds :
          /\ (C14_Queued(actionQueue', d) /\ ~C14_Queued(actionQueue, d)) =>
                /\ creating[d].pc \in {"focus", "switch"}
                /\ dop'.id = d /\ dop'.ret = "dispatched"
          /\ (d <= nDeleg /\ creating[d].pc = "none") => creating'[d].pc = "none"

C14_FocusFailureFatal == [][C14_Step]_vars

\* focusTab answered with a failure and the delegation is failed and unqueued
C14_Witness ==
    /\ dop.op = "focus" /\ dop.ret = "failed"
    /\ \E k \in 1..Len(delegations) :
          /\ delegations[k].id = dop.id
          /\ delegations[k].status = "failed"
          /\ ~C14_Queued(actionQueue, dop.id)

\* C15: complete(id, result, error) on an existing record, whatever its
\* status, sets the status to failed when an error (a non-empty one) is given
\* and to completed otherwise, stamps completedAt, stores the result and the
\* error (null for what was not given), and leaves every other field and every
\* other record alone; with an id that no record has it answers not_found and
\* changes nothing.
C15_Step ==
    dop'.op = "complete" =>
        LET k == FindDelegation(delegations, dop'.id)
            given(x) == x \notin {"null", ""}
        IN  IF k = 0
            THEN /\ dop'.ret = "not_found"
                 /\ delegations' = delegations
                 /\ pub' = pub
            ELSE /\ dop'.ret = ""
                 /\ Len(delegations') = Len(delegations)
                 /\ \A j \in 1..Len(delegations) : j # k => delegations'[j] = delegations[j]
                 /\ delegations'[k] =
                       [delegations[k] EXCEPT
                           !.status = IF given(dop'.error) THEN "failed" ELSE "completed",
                           !.completedAt = now,
                           !.result = IF given(dop'.result) THEN dop'.result ELSE "null",
                           !.error = IF given(dop'.error) THEN dop'.error ELSE "null"]

C15_CompleteUnguarded == [][C15_Step]_vars

\* complete() with an error ran on a record that was already completed
C15_Witness ==
    /\ dop.op = "complete" /\ dop.ret = "" /\ dop.was = "completed" /\ dop.error = "e"
    /\ \E k \in 1..Len(delegations) :
          delegations[k].id = dop.id /\ delegations[k].status = "failed"

\* C16: accept(id) on a record that is not completed (pending, in_progress,
\* failed or timeout) sets status in_progress and stamps acceptedAt and
\* startedAt with the time of the call; so list() marks an accepted record
\* timeout only when more than timeout_ms have gone by since the accept, the
\* deadline that ran from the original start no longer counting.
C16_Step ==
    /\ (dop'.op = "accept" /\ dop'.ret = "") =>
          LET k == FindDelegation(delegations, dop'.id)
          IN  /\ k # 0
              /\ delegations[k].status \in {"pending", "in_progress", "failed", "timeout"}
              /\ delegations'[k].status = "in_progress"
              /\ delegations'[k].acceptedAt = now
              /\ delegations'[k].startedAt = now
    /\ dop'.op = "list" =>
          \A k \in 1..Len(delegations) :
              (delegations'[k].status = "timeout" /\ delegations[k].status # "timeout"
                 /\ delegations[k].acceptedAt # null)
              => now - delegations[k].acceptedAt > delegations[k].timeout_ms

C16_AcceptRestartsDeadline == [][C16_Step]_vars

\* list() looked at a record that had timed out, was accepted after that and
\* is within timeout_ms of the accept: it is still in_progress
C16_Witness ==
    /\ dop.op = "list" /\ dop.status # "completed"
    /\ \E k \in 1..Len(delegations) :
          /\ dop.id \in {0, delegations[k].id}
          /\ delegations[k].status = "in_progress"
          /\ delegations[k].error = "Timeout after"
          /\ delegations[k].acceptedAt # null
          /\ now > delegations[k].acceptedAt
          /\ now - delegations[k].acceptedAt <= delegations[k].timeout_ms

\* C17: the reconnect loop heals itself. After a socket closed (a session lost
\* or a handshake failed) or findTarget() found nothing, connect() is
\* eventually called again; and when from some point on a target is always
\* found and its socket stays up, the bridge ends up connected for good. The
\* timers fire, findTarget() and the handshake come to an end (fairness);
\* request ids stay within the model's range.
C17_Lost == lastOp.op \in {"close", "notarget"}

C17_Retries == C17_Lost ~> (finding > 0)

C17_Heals == <>[](~C17_Lost /\ requestId <= MaxReq) => <>[]isConnected

C17_SelfHealing == C17_Retries /\ C17_Heals

\* a session was opened and lost, and connect() is looking for a target again
C17_Witness ==
    /\ finding > 0
    /\ ~isConnected /\ ws = 0
    /\ requestId > FirstRequestId
    /\ reconnectTimer = 0

\* C18: bridgeRequest makes at most MAX_RETRIES (5) attempts for one call,
\* makes none after the first that succeeds, waits RETRY_DELAY_MS * 2^(k-1)
\* after the k-th failed attempt but not after the last one, and when all
\* attempts failed it returns the failure value {ok: false, error} (it does
\* not throw).
C18_Failures == Len(SelectSeq(mcp.tries, LAMBDA o : o # "json"))

C18_State ==
    /\ Len(mcp.tries) <= 5
    /\ \A k \in 1..Len(mcp.tries) :
          mcp.tries[k] = "json" => k = Len(mcp.tries) /\ mcp.pc = "done"
    /\ Len(mcp.waits) <= 4
    /\ Len(mcp.waits) = (IF C18_Failures = 5 THEN 4 ELSE C18_Failures)
    /\ \A k \in 1..Len(mcp.waits) : mcp.waits[k] = 500 * (2 ^ (k - 1))
    /\ mcp.pc = "done" =>
          \/ mcp.ret = "json" /\ mcp.tries[Len(mcp.tries)] = "json"
          \/ mcp.ret = "failed" /\ C18_Failures = 5
                /\ mcp.lastError = mcp.tries[5]
    /\ mcp.pc \in {"fetch", "wait"} => mcp.ret = "none" /\ C18_Failures = Len(mcp.tries)
    /\ mcp.pc = "fetch" => Len(mcp.tries) = mcp.attempt - 1
    /\ mcp.pc = "wait" => Len(mcp.tries) = mcp.attempt

C18_BoundedRetry == []C18_State

\* all five attempts failed: four waits, no fifth, and the failure value
C18_Witness ==
    /\ mcp.pc = "done"
    /\ mcp.ret = "failed"
    /\ Len(mcp.tries) = 5
    /\ mcp.waits = << 500, 1000, 2000, 4000 >>

\* C19: whenever the queue processor pops the head after a successful
\* delivery, the item popped is the item that tick delivered: no item leaves
\* the action queue on the success path without having been submitted
\* itself, however ticks and enqueues interleave.
C19_PopsDelivered ==
    \A k \in 1..Len(dlog) :
        (dlog[k].kind = "success" /\ dlog[k].popped # 0) => dlog[k].popped = dlog[k].item

\* C20: the queue processor serializes delivery: at most one tick has a
\* delivery in flight at any time, and no item is delivered by two ticks.
C20_InFlight == {c \in CallIds : calls[c].who = "tick" /\ InFlight(c)}

C20_Serialized ==
    /\ Cardinality(C20_InFlight) <= 1
    /\ \A j, k \in 1..Len(dlog) :
          (j < k /\ dlog[j].kind = "success" /\ dlog[k].kind = "success")
          => dlog[j].item # dlog[k].item

\* C21: one injectMessage call invokes tryInjectAnyContext at most 3 times
\* before it returns editor_not_found_in_any_context.
C21_Sweeps(c) == 2 * calls[c].i + calls[c].phase

C21_AtMostThreeSweeps ==
    \A c \in CallIds : InFlight(c) => C21_Sweeps(c) <= 3

\* C22: a probe that gets no response while the connection stays open is
\* given up after a bounded wait: a call awaiting a probe does not await it
\* for ever, the session staying up, and the call returns.
C22_Probing(c, r) == calls[c].pc = "probe" /\ calls[c].req = r

C22_ProbeAbandoned ==
    \A c \in DirectIds, r \in ReqIds :
        C22_Probing(c, r) ~> (~C22_Probing(c, r) \/ ~isConnected)

\* C23: when a tick's delivery ends with busy, the action queue is left as it
\* was (the head stays the head), STATE.agent.busy becomes true and
\* agent_state{busy: true} is broadcast.
C23_Ends(c, rets) ==
    /\ calls[c].pc # "done"
    /\ calls'[c].pc = "done"
    /\ calls'[c].who = "tick"
    /\ calls'[c].ret \in rets

C23_Step ==
    \A c \in TickIds :
        C23_Ends(c, {"busy"}) =>
            /\ actionQueue' = actionQueue
            /\ calls'[c].alone =>
                  actionQueue' # << >> /\ Head(actionQueue').id = calls'[c].item
            /\ agentBusy'
            /\ pub' = [ev |-> "agent_state", val |-> 1, flip |-> ~pub.flip]
            /\ dlog' = dlog

C23_BusyKeepsItem == [][C23_Step]_vars

\* a tick's delivery has just ended with busy and two items are queued
C23_Witness ==
    /\ \E c \in TickIds : calls[c].pc = "done" /\ calls[c].ret = "busy"
    /\ Len(actionQueue) = 2
    /\ agentBusy

\* C24: when a tick's delivery ends with anything but success or busy
\* (not_connected and editor_not_found_in_any_context included), the head item
\* and only the head item is removed, at once and for good; every other item
\* keeps its place. For a tick that ran with no other tick in flight the head
\* is the item it delivered.
C24_Step ==
    \A c \in TickIds :
        C23_Ends(c, {"not_connected", "editor_not_found_in_any_context"}) =>
            /\ actionQueue' = (IF actionQueue = << >> THEN << >> ELSE Tail(actionQueue))
            /\ calls'[c].alone =>
                  actionQueue # << >> /\ Head(actionQueue).id = calls'[c].item
            /\ agentBusy' = agentBusy
            /\ Len(dlog') = Len(dlog) + 1
            /\ dlog'[Len(dlog')].kind = "drop"

C24_State ==
    \A k \in 1..Len(dlog) :
        (dlog[k].kind = "drop" /\ dlog[k].alone) =>
            /\ \A j \in 1..Len(actionQueue) : actionQueue[j].id # dlog[k].item
            /\ \A j \in 1..Len(dlog) : j # k => dlog[j].item # dlog[k].item

C24_DropNoRetry == []C24_State /\ [][C24_Step]_vars

\* the head of two items was dropped after a delivery that found no editor
C24_Witness ==
    /\ \E c \in TickIds :
          calls[c].pc = "done" /\ calls[c].ret = "editor_not_found_in_any_context"
    /\ Len(dlog) = 1 /\ dlog[1].kind = "drop" /\ dlog[1].item = 1
    /\ Len(actionQueue) = 1 /\ actionQueue[1].id = 2

\* C25: every list() call, whatever id or status filter it carries, leaves
\* no record of the store in_progress whose time since startedAt is greater
\* than its timeout_ms: all of them are timeout when the call answers.
C25_Step ==
    dop'.op = "list" =>
        \A k \in 1..Len(delegations') :
            ~ /\ delegations'[k].status = "in_progress"
              /\ delegations'[k].startedAt # null
              /\ now - delegations'[k].startedAt > delegations'[k].timeout_ms

C25_ListSweepsStore == [][C25_Step]_vars

\* C26: a delegation that complete() set to completed while its create() call
\* was suspended at an await is still completed, with its result, when
\* create() goes on: the continuation of create() does not overwrite it.
C26_Step ==
    dop'.op \in {"focus", "switch"} =>
        \A k \in 1..Len(delegations) :
            delegations[k].status = "completed" =>
                /\ k <= Len(delegations')
                /\ delegations'[k].status = "completed"
                /\ delegations'[k].result = delegations[k].result

C26_CreateKeepsCompleted == [][C26_Step]_vars

\* C27: the queue item of a delegation is handed to injectMessage only while
\* the delegation is in_progress; once the delegation is timeout, failed or
\* completed its queued task is not delivered any more.
C27_Starts(c) ==
    /\ ~InFlight(c)
    /\ calls'[c] # calls[c]
    /\ calls'[c].who = "tick"
    /\ calls'[c].pc # "free"

C27_Step ==
    \A c \in TickIds :
        (C27_Starts(c) /\ Head(actionQueue).from = "delegation") =>
            \E k \in 1..Len(delegations) :
                /\ delegations[k].id = Head(actionQueue).id
                /\ delegations[k].status = "in_progress"

C27_OnlyInProgressDelivered == [][C27_Step]_vars

\* C28: when the focus succeeds create() ends with the delegation in_progress
\* and startedAt set, and with exactly one item carrying the delegation's id
\* appended to the tail of the action queue; the record was stored with
\* status pending in the step that began the focus.
C28_Ends == dop'.op \in {"focus", "switch"} /\ dop'.ret = "dispatched"

C28_Item(id) == [id |-> id, from |-> "delegation"]

C28_Step ==
    /\ C28_Ends =>
          /\ \E k \in 1..Len(delegations') :
                /\ delegations'[k].id = dop'.id
                /\ delegations'[k].status = "in_progress"
                /\ delegations'[k].startedAt = now
                /\ delegations'[k].startedAt # null
          /\ actionQueue' = Append(actionQueue, C28_Item(dop'.id))
          /\ \A j \in 1..Len(actionQueue) : actionQueue[j] # C28_Item(dop'.id)
    /\ \A id \in DelegIds :
          (creating[id].pc # "focus" /\ creating'[id].pc = "focus") =>
              /\ Len(delegations') = Len(delegations) + 1
              /\ delegations'[Len(delegations')].id = id
              /\ delegations'[Len(delegations')].status = "pending"
              /\ delegations'[Len(delegations')].startedAt = null
              /\ actionQueue' = actionQueue

C28_DispatchedInProgress == [][C28_Step]_vars

C28_Witness ==
    /\ dop.op = "switch"
    /\ dop.ret = "dispatched"
    /\ Len(delegations) = 1
    /\ delegations[1].status = "in_progress"
    /\ delegations[1].startedAt = 1
    /\ actionQueue = << C28_Item(1) >>

\* C29: at most one reconnect timer is pending at any time; scheduleReconnect
\* while a timer is pending changes nothing; every socket close and every
\* failed target discovery leaves exactly one timer pending, and a pending
\* timer fires and starts exactly one connect() attempt.
C29_OneTimer == reconnectTimer <= 1

C29_Closes == \E s \in SockIds : sockets[s] # "none" /\ sockets'[s] = "none"

C29_NoTarget == finding' = finding - 1 /\ sockets' = sockets

C29_Step ==
    /\ (C29_Closes \/ C29_NoTarget) =>
          /\ reconnectTimer' = 1
          /\ reconnectTimer > 0 => reconnectTimer' = reconnectTimer
    /\ reconnectTimer' < reconnectTimer =>
          /\ reconnectTimer' = 0
          /\ finding' = finding + 1
    /\ finding' > finding =>
          /\ finding' = finding + 1
          /\ started' = started + 1 \/ reconnectTimer' = reconnectTimer - 1

C29_Fires == (reconnectTimer = 1) ~> (reconnectTimer = 0)

C29_SingleTimer == []C29_OneTimer /\ [][C29_Step]_vars /\ C29_Fires

\* both connect() calls have come to an end, the later one while the timer of
\* the earlier one was pending: one timer stands for both
C29_Witness ==
    /\ started = StartCalls
    /\ finding = 0
    /\ \A s \in SockIds : sockets[s] = "none"
    /\ reconnectTimer = 1
    /\ lastOp.op = "close"

\* C30: at most one session is live at any time: there are never two sockets
\* whose handlers feed the manager, and the close event of one socket leaves
\* the state of another live socket's session alone.
C30_Live == {s \in SockIds : sockets[s] # "none"}

C30_OneSession == Cardinality(C30_Live) <= 1

C30_Step ==
    \A s \in SockIds :
        (sockets[s] # "none" /\ sockets'[s] = "none" /\ C30_Live # {s}) =>
            /\ isConnected' = isConnected
            /\ ws' = ws
            /\ contexts' = contexts
            /\ pendingRequests' = pendingRequests

C30_SingleSession == []C30_OneSession /\ [][C30_Step]_vars

\* C31: when the action expression answers ok:true in some context the call
\* returns that success at once: it sends no further probe or action, is
\* left waiting for no request, and starts no further sweep.
C31_OkFor(c) ==
    /\ lastOp'.op = "response"
    /\ lastOp'.val = "ok"
    /\ \E hit \in lastOp'.ids :
          /\ hit \in DOMAIN pendingRequests
          /\ pendingRequests[hit].kind = "action"
          /\ pendingRequests[hit].owner = c

C31_Step ==
    \A c \in CallIds :
        C31_OkFor(c) =>
            /\ calls'[c].pc = "done"
            /\ calls'[c].ret = "ok"
            /\ requestId' = requestId
            /\ \A r \in DOMAIN pendingRequests' : pendingRequests'[r].owner # c

C31_OkReturnsAtOnce == [][C31_Step]_vars

\* success in the newest of two contexts, the older one never probed
C31_Witness ==
    /\ lastOp.op = "response" /\ lastOp.val = "ok"
    /\ \E c \in DirectIds : calls[c].pc = "done" /\ calls[c].ret = "ok"
    /\ Len(contexts) = 2
    /\ requestId = FirstRequestId + 3

\* C32: a sweep probes the contexts known when it starts, the most recently
\* created first; contexts created or destroyed while the sweep runs change
\* neither the set nor the order it visits.
C32_Sweeping(r) == r.pc \in {"probe", "action"}

C32_SameSweep(a, b) ==
    /\ C32_Sweeping(a) /\ C32_Sweeping(b)
    /\ a.i = b.i /\ a.phase = b.phase

C32_Live == isConnected /\ ws # 0

C32_Step ==
    \A c \in CallIds :
        LET a == calls[c]
            b == calls'[c]
        IN  /\ (b.pc = "probe" /\ ~C32_SameSweep(a, b) /\ C32_Live) =>
                  /\ contexts # << >>
                  /\ << b.cur >> \o b.rest = Reverse(contexts)
            /\ (C32_SameSweep(a, b) /\ b.req = a.req) =>
                  b.cur = a.cur /\ b.rest = a.rest
            /\ (C32_SameSweep(a, b) /\ b.req # a.req /\ C32_Live) =>
                  IF b.pc = "action" THEN b.cur = a.cur /\ b.rest = a.rest
                  ELSE /\ a.rest # << >>
                       /\ b.cur = Head(a.rest)
                       /\ b.rest = Tail(a.rest)
            /\ (C32_Sweeping(a) /\ ~C32_SameSweep(a, b) /\ C32_Live
                /\ lastOp'.op = "response"
                /\ lastOp'.val \in {"false", "other", "error"}) =>
                  a.rest = << >>

C32_SnapshotNewestFirst == [][C32_Step]_vars

\* the sweep has come to a context that was destroyed after it started
C32_Witness ==
    \E c \in DirectIds :
        /\ calls[c].pc = "probe"
        /\ calls[c].rest = << >>
        /\ ~SeqHas(contexts, calls[c].cur)
        /\ contexts # << >>
        /\ lastOp.val = "false"

\* C33: the registry holds exactly the contexts created and neither destroyed
\* nor cleared since: context-created inserts the id, context-destroyed
\* removes it (nothing happens for an unknown id), contexts-cleared empties
\* the registry; no notification touches the pending-request map.
C33_Set(ctxs) == {ctxs[k] : k \in 1..Len(ctxs)}

C33_State == Cardinality(C33_Set(contexts)) = Len(contexts)

C33_Step ==
    /\ lastOp'.op = "context_created" =>
          /\ C33_Set(contexts') = C33_Set(contexts) \cup {lastOp'.a}
          /\ pendingRequests' = pendingRequests
    /\ lastOp'.op = "context_destroyed" =>
          /\ C33_Set(contexts') = C33_Set(contexts) \ {lastOp'.a}
          /\ lastOp'.a \notin C33_Set(contexts) => contexts' = contexts
          /\ pendingRequests' = pendingRequests
    /\ lastOp'.op = "contexts_cleared" =>
          /\ contexts' = << >>
          /\ pendingRequests' = pendingRequests
    /\ C33_Set(contexts') # C33_Set(contexts) =>
          lastOp'.op \in {"context_created", "context_destroyed",
                          "contexts_cleared", "close"}

C33_RegistryFollowsNotifications == []C33_State /\ [][C33_Step]_vars

\* context 1 was destroyed while a request was pending: context 2 is left
C33_Witness ==
    /\ lastOp.op = "context_destroyed" /\ lastOp.a = 1
    /\ contexts = << 2 >>
    /\ pendingRequests # EmptyMap

\* C34: the ids send() allocates grow strictly over the whole life of the
\* manager and are never used again, across disconnects and reconnects too:
\* a pending request has an id below the counter that was never settled
\* before, so a late response to a request of a closed session settles no
\* request of a later one.
C34_State ==
    /\ \A r \in DOMAIN pendingRequests : r < requestId /\ settled[r] = 0
    /\ \A r \in ReqIds : (r >= requestId => settled[r] = 0) /\ settled[r] <= 1

C34_Step ==
    /\ requestId' >= requestId
    /\ DOMAIN pendingRequests' \ DOMAIN pendingRequests = requestId..(requestId' - 1)

C34_IdsNeverReused == []C34_State /\ [][C34_Step]_vars

\* the second session: its Runtime.enable is pending under a new id while a
\* frame arrives that matches no pending request
C34_Witness ==
    /\ isConnected
    /\ settled[FirstRequestId] = 1
    /\ \E r \in DOMAIN pendingRequests :
          r > FirstRequestId /\ pendingRequests[r].kind = "enable"
    /\ lastOp.op = "response" /\ lastOp.ids = {}

\* C35: nothing keeps the queue tick and a direct injectMessage call apart:
\* while a direct call is in flight a tick with a queued item and no busy
\* flag starts its delivery, while a tick's delivery is in flight a direct
\* call starts, and both have their action expression submitted together.
C35_Ready == isConnected /\ ws # 0 /\ contexts # << >> /\ requestId <= MaxReq

C35_TickDelivers == TickFire /\ requestId' > requestId

C35_DirectDelivers == DirectSend /\ requestId' > requestId

C35_NoExclusion ==
    /\ ( /\ C35_Ready
         /\ \E d \in DirectIds : calls[d].pc \in {"probe", "action", "sleep"}
         /\ \E c \in TickIds : calls[c].pc \in {"free", "done"}
         /\ actionQueue # << >> /\ ~agentBusy ) => ENABLED C35_TickDelivers
    /\ ( /\ C35_Ready
         /\ \E c \in TickIds : calls[c].pc \in {"probe", "action", "sleep"}
         /\ \E d \in DirectIds : calls[d].pc \in {"free", "done"} )
       => ENABLED C35_DirectDelivers

\* the action expressions of a tick and of a direct call are both awaited
C35_Witness ==
    \E d \in DirectIds, c \in TickIds :
        /\ calls[d].who = "direct" /\ calls[d].pc = "action"
        /\ calls[c].who = "tick" /\ calls[c].pc = "action"
        /\ calls[d].req # calls[c].req

\* C36: whenever agent_state{busy: b} is published, by the queue processor,
\* the busy poller, /messages/stop or /api/stop, the stored AgentState.busy
\* that the next tick reads equals b.
C36_Published == pub' # pub /\ pub'.ev = "agent_state"

C36_Step == C36_Published => (agentBusy' <=> pub'.val = 1)

C36_PublishedIsStored == [][C36_Step]_vars

\* C37: every record that list() called with a status filter S returns has
\* status S in the response, also when this call flips records to timeout.
C37_Step ==
    (dop'.op = "list" /\ dop'.status # "") =>
        \A k \in 1..Len(delegations) :
            Selected(delegations[k], dop'.id, dop'.status) =>
                delegations'[k].status = dop'.status

C37_FilteredHaveStatus == [][C37_Step]_vars

\* C38: the status of every delegation record is one of pending,
\* in_progress, completed, failed, timeout, and no operation returns a record
\* to pending once it has left pending.
C38_Statuses == {"pending", "in_progress", "completed", "failed", "timeout"}

C38_State == \A k \in 1..Len(delegations) : delegations[k].status \in C38_Statuses

C38_Step ==
    \A k \in 1..Len(delegations), j \in 1..Len(delegations') :
        (delegations'[j].id = delegations[k].id /\ delegations[k].status # "pending")
            => delegations'[j].status # "pending"

C38_NeverBackToPending == []C38_State /\ [][C38_Step]_vars

\* accept() has taken a record that had timed out: in_progress again
C38_Witness ==
    /\ dop.op = "accept" /\ dop.ret = "" /\ dop.was = "timeout"
    /\ Len(delegations) = 1
    /\ delegations[1].status = "in_progress"

\* C39: every time a socket opens, on the first connect and on every
\* reconnect, Runtime.enable is sent on the new session and is its first
\* request: no request of a caller is pending when the socket opens, and the
\* open handler registers exactly the Runtime.enable request.
C39_Opens == \E s \in SockIds : sockets[s] = "connecting" /\ sockets'[s] = "open"

C39_Step ==
    C39_Opens =>
        /\ \A r \in DOMAIN pendingRequests : pendingRequests[r].owner = 0
        /\ requestId' = requestId + 1
        /\ DOMAIN pendingRequests' = DOMAIN pendingRequests \cup {requestId}
        /\ pendingRequests'[requestId].kind = "enable"

C39_EnableFirst == [][C39_Step]_vars

\* C40: starting from at most 50 stored records the delegation list never
\* holds more than 50: a create at the cap evicts the oldest record whatever
\* its status and appends the new one, and complete() and accept() on an id
\* that is not stored answer not_found and change nothing.
C40_State == Len(delegations) <= delegationCap

C40_Has(ds, id) == \E k \in 1..Len(ds) : ds[k].id = id

C40_Step ==
    /\ nDeleg' = nDeleg + 1 =>
          IF Len(delegations) = delegationCap
          THEN /\ Len(delegations') = delegationCap
               /\ \A k \in 1..(delegationCap - 1) : delegations'[k] = delegations[k + 1]
               /\ delegations'[delegationCap].id = nDeleg'
               /\ ~C40_Has(delegations', delegations[1].id)
          ELSE /\ Len(delegations') = Len(delegations) + 1
               /\ \A k \in 1..Len(delegations) : delegations'[k] = delegations[k]
               /\ delegations'[Len(delegations')].id = nDeleg'
    /\ (dop'.op \in {"complete", "accept"} /\ ~C40_Has(delegations, dop'.id)) =>
          /\ dop'.ret = "not_found"
          /\ delegations' = delegations

C40_CapEvictsOldest == []C40_State /\ [][C40_Step]_vars

\* the oldest stored record was evicted by a create at the cap, and a
\* complete() for it was answered not_found
C40_Witness ==
    /\ dop.op = "complete" /\ dop.ret = "not_found" /\ dop.id = MaxDeleg + 1
    /\ Len(delegations) = delegationCap
    /\ delegations[delegationCap].id = 1
    /\ delegations[1].id = MaxDeleg + 2
====
